---- MODULE Spec2Model ----
(***************************************************************************)
(* A model of the dependency injection library go-di: the construction of   *)
(* a Context from module functions (di.go, module.go, provider.go) and the  *)
(* start/stop lifecycle of an App over the context's instances (app.go).    *)
(***************************************************************************)
EXTENDS Integers, Sequences, FiniteSets, TLC

VARIABLES
    lib,        \* the module functions of the program: name -> the calls its body makes
    roots,      \* the arguments of NewContext: module functions and plain values
    result,     \* what NewContext did: its return values and the calls it made
    methods,    \* the methods of each type among Start, Stop and Close
    app,        \* the App and the position of the call of Run, Start or Stop on it
    gs,         \* the goroutines withTimeout has launched, in the order of launch
    user,       \* the call of Get, Inject or Fill the program made
    lazy        \* the goroutines that share a lazily constructing Context

vars == <<lib, roots, result, methods, app, gs, user, lazy>>

-----------------------------------------------------------------------------
(* Bounds of the model.                                                     *)

\* The most Import calls in the bodies of all module functions together.
MaxImports == 3
\* The most Add and Dep calls in the bodies of all module functions together.
MaxAdds == 3
\* The most arguments passed to NewContext.
MaxRoots == 2

\* The names of the module functions of the program.
Names == {"A", "B", "C"}
\* The types instances have.
Types == {"X", "Y", "Z"}

-----------------------------------------------------------------------------
(* Values of the Go program.                                                *)

\* An error value; NoErr is the nil error.
Err(kind, typ, path) == [kind |-> kind, typ |-> typ, path |-> path]
NoErr == Err("nil", "", <<>>)

\* A nil *Context.
NilCtx == [nil |-> TRUE]

\* The provider functions of the program: their signatures. NumOut = 2 is the
\* (instance, error) convention.
Factories ==
    [ newX  |-> [Type |-> "X", Deps |-> <<>>,         NumOut |-> 1],
      newY  |-> [Type |-> "Y", Deps |-> <<"X">>,      NumOut |-> 1],
      newZ  |-> [Type |-> "Z", Deps |-> <<"X", "Y">>, NumOut |-> 1],
      newZE |-> [Type |-> "Z", Deps |-> <<"X", "Y">>, NumOut |-> 2],
      newXY |-> [Type |-> "X", Deps |-> <<"Y">>,      NumOut |-> 1],
      newZZ |-> [Type |-> "Z", Deps |-> <<"Z">>,      NumOut |-> 1] ]

\* The error a (instance, error) factory returns when it fails.
FactoryErr(fname) == Err("factory error", fname, <<>>)

\* A plain value of type typ that the program holds before NewContext.
Value(typ) == [typ |-> typ, id |-> 0]

\* The calls a module function can make on the *Module it is given.
Call(op, arg) == [op |-> op, arg |-> arg]

\* A ModuleFunc: a function value, with the name runtime.FuncForPC gives it.
ModuleFunc(name, script) == [name |-> name, script |-> script]

\* The name of every closure NewContext creates at di.go:51 to wrap a value.
WrapperName == "NewContext.func1"

-----------------------------------------------------------------------------
(* provider.go                                                              *)

newProvider(module, fname) ==
    [ Module |-> module,
      Name   |-> fname,
      Type   |-> Factories[fname].Type,
      Deps   |-> Factories[fname].Deps,
      Func   |-> [kind |-> "func", NumOut |-> Factories[fname].NumOut,
                  instance |-> Value("")] ]

newInstanceProvider(module, instance) ==
    [ Module |-> module,
      Name   |-> instance.typ,
      Type   |-> instance.typ,
      Deps   |-> <<>>,
      Func   |-> [kind |-> "instance", NumOut |-> 2, instance |-> instance] ]

\* The panic of the type assertion out[1].Interface().(error) on a nil
\* interface value (provider.go:58).
NilErrorPanic == "interface conversion: interface is nil, not error"

\* Provider.Func: the n-th invocation of a factory makes a new object, n. A
\* (instance, error) factory in failing returns its error; one that returns a
\* nil error makes the function panic, out[1].Interface() being a nil interface
\* value that the single-value assertion .(error) does not accept
\* (provider.go:46-60). An instance provider returns its instance (72-74).
ProviderFunc(p, args, n, failing) ==
    IF p.Func.kind = "instance"
    THEN [instance |-> p.Func.instance, err |-> NoErr, panic |-> ""]
    ELSE IF p.Func.NumOut = 2
         THEN IF p.Name \in failing
              THEN [instance |-> Value(""), err |-> FactoryErr(p.Name), panic |-> ""]
              ELSE [instance |-> Value(""), err |-> NoErr, panic |-> NilErrorPanic]
         ELSE [instance |-> [typ |-> p.Type, id |-> n], err |-> NoErr, panic |-> ""]

-----------------------------------------------------------------------------
(* module.go                                                                *)

Range(s) == {s[i] : i \in DOMAIN s}

\* Module.add
add(m, p) ==
    IF \E i \in DOMAIN m.Providers : m.Providers[i].Type = p.Type
    THEN [m EXCEPT !.panic = "duplicate provider"]
    ELSE [m EXCEPT !.Providers = Append(@, p)]

\* Module.Add
Add(m, fname) == add(m, newProvider(m.Name, fname))

\* Module.AddInstance
AddInstance(m, instance) == add(m, newInstanceProvider(m.Name, instance))

\* Module.Dep
Dep(m, typ) ==
    IF \E i \in DOMAIN m.Deps : m.Deps[i] = typ
    THEN [m EXCEPT !.panic = "duplicate dependency"]
    ELSE [m EXCEPT !.Deps = Append(@, typ)]

\* Module.Import
Import(m, name) ==
    IF \E i \in DOMAIN m.Imports : m.Imports[i] = name
    THEN [m EXCEPT !.panic = "duplicate import"]
    ELSE [m EXCEPT !.Imports = Append(@, name)]

\* One call of a module function's body on its module; a panic ends the body.
RECURSIVE runBody(_, _)
runBody(m, script) ==
    IF script = <<>> \/ m.panic # "" THEN m
    ELSE LET c == Head(script)
             m1 == CASE c.op = "Import"      -> Import(m, c.arg)
                     [] c.op = "Add"         -> Add(m, c.arg)
                     [] c.op = "AddInstance" -> AddInstance(m, Value(c.arg))
                     [] c.op = "Dep"         -> Dep(m, c.arg)
         IN runBody(m1, Tail(script))

newModule(f) ==
    runBody([Name |-> f.name, Imports |-> <<>>, Providers |-> <<>>,
             Deps |-> <<>>, panic |-> ""], f.script)

-----------------------------------------------------------------------------
(* di.go                                                                    *)

\* A Go map as a function on its keys.
EmptyMap == << >>
Put(map, k, v) == (k :> v) @@ map

\* The path initModule reports when name is on prevNames: name, then prevNames
\* from its end back to the last occurrence of name. <<>>: name is not on it.
cyclePath(name, prevNames) ==
    LET hits == {i \in DOMAIN prevNames : prevNames[i] = name} IN
    IF hits = {} THEN <<>>
    ELSE LET j == CHOOSE i \in hits : \A k \in hits : k <= i
             n == Len(prevNames)
         IN <<name>> \o [k \in 1..(n - j + 1) |-> prevNames[n - k + 1]]

\* The module function a name in Module.Imports stands for.
importFunc(name) == ModuleFunc(name, lib[name])

\* Context.initModule, on st = [Modules, inits, err, panic]; inits lists the
\* module functions newModule has invoked.
RECURSIVE initModule(_, _, _)
RECURSIVE initImports(_, _, _)
\* initModule as it would be if it stored the module in ctx.Modules before
\* resolving its imports.
initModule_storeFirst(st, mfunc, prevNames) ==
    LET name == mfunc.name IN
    IF name \in DOMAIN st.Modules THEN st
    ELSE IF cyclePath(name, prevNames) # <<>>
    THEN [st EXCEPT !.err = Err("cyclic import", "", cyclePath(name, prevNames))]
    ELSE LET m   == newModule(mfunc)
             st1 == [st EXCEPT !.inits = Append(@, name)]
         IN IF m.panic # "" THEN [st1 EXCEPT !.panic = m.panic]
            ELSE initImports([st1 EXCEPT !.Modules = Put(@, name, m)],
                             m.Imports, Append(prevNames, name))

\* initModule as it would be without the lookup of the name in ctx.Modules.
initModule_noLookup(st, mfunc, prevNames) ==
    LET name == mfunc.name IN
    IF cyclePath(name, prevNames) # <<>>
    THEN [st EXCEPT !.err = Err("cyclic import", "", cyclePath(name, prevNames))]
    ELSE LET m   == newModule(mfunc)
             st1 == [st EXCEPT !.inits = Append(@, name)]
         IN IF m.panic # "" THEN [st1 EXCEPT !.panic = m.panic]
            ELSE LET st2 == initImports(st1, m.Imports, Append(prevNames, name))
                 IN IF st2.err # NoErr \/ st2.panic # "" THEN st2
                    ELSE [st2 EXCEPT !.Modules = Put(@, name, m)]

initModule(st, mfunc, prevNames) ==
    LET name == mfunc.name IN
    IF name \in DOMAIN st.Modules THEN st
    ELSE IF cyclePath(name, prevNames) # <<>>
    THEN [st EXCEPT !.err = Err("cyclic import", "", cyclePath(name, prevNames))]
    ELSE LET m   == newModule(mfunc)
             st1 == [st EXCEPT !.inits = Append(@, name)]
         IN IF m.panic # "" THEN [st1 EXCEPT !.panic = m.panic]
            ELSE LET st2 == initImports(st1, m.Imports, Append(prevNames, name))
                 IN IF st2.err # NoErr \/ st2.panic # "" THEN st2
                    ELSE [st2 EXCEPT !.Modules = Put(@, name, m)]

\* The loop of initModule over m.Imports (di.go:140-144).
initImports(st, imports, prevNames) ==
    IF imports = <<>> THEN st
    ELSE LET st1 == initModule(st, importFunc(Head(imports)), prevNames)
         IN IF st1.err # NoErr \/ st1.panic # "" THEN st1
            ELSE initImports(st1, Tail(imports), prevNames)

\* Context.initModules
RECURSIVE initModules(_, _)
initModules(st, mfuncs) ==
    IF mfuncs = <<>> THEN st
    ELSE LET st1 == initModule(st, Head(mfuncs), <<>>)
         IN IF st1.err # NoErr \/ st1.panic # "" THEN st1
            ELSE initModules(st1, Tail(mfuncs))

\* The providers of the modules named by modOrder, in that order, each
\* module's in the order they were added.
RECURSIVE providersIn(_, _)
providersIn(Modules, modOrder) ==
    IF modOrder = <<>> THEN <<>>
    ELSE Modules[Head(modOrder)].Providers \o providersIn(Modules, Tail(modOrder))

\* The first loop of Context.initProviders over the providers ps; st is
\* [Providers, err].
RECURSIVE addProviders(_, _)
\* addProviders as it would be without the check for a type already present.
addProviders_overwrite(st, ps) ==
    IF ps = <<>> THEN st
    ELSE addProviders([st EXCEPT !.Providers = Put(@, Head(ps).Type, Head(ps))],
                      Tail(ps))

addProviders(st, ps) ==
    IF ps = <<>> THEN st
    ELSE LET p == Head(ps) IN
         IF p.Type \in DOMAIN st.Providers
         THEN [st EXCEPT !.err = Err("duplicate provider", p.Type,
                                     <<p.Module, st.Providers[p.Type].Module>>)]
         ELSE addProviders([st EXCEPT !.Providers = Put(@, p.Type, p)], Tail(ps))

\* availableDeps of the second loop of Context.initProviders for module m:
\* computed there and never read, the check that reads it being commented out.
availableDeps(Modules, Providers, m) ==
    UNION {{p.Type : p \in Range(Modules[imp].Providers)} : imp \in Range(m.Imports)}
    \cup {p.Type : p \in Range(m.Providers)}
    \cup {dep \in Range(m.Deps) : dep \in DOMAIN Providers}

\* Context.initProviders: Go ranges over ctx.Modules in the order modOrder.
initProviders(Modules, modOrder) ==
    addProviders([Providers |-> EmptyMap, err |-> NoErr],
                 providersIn(Modules, modOrder))

\* Context.initInstance of typ, on st = [Instances, InstanceSlice, calls, ret,
\* err, overflow]. stack holds the types whose initInstance is on the call stack:
\* a type that is on it again has no instance yet and takes the same calls
\* again, without end, until the goroutine's stack is exhausted.
RECURSIVE initInstance(_, _, _, _, _)
RECURSIVE initArgs(_, _, _, _, _, _)
\* initInstance as it would be without the lookup of typ in ctx.Instances.
initInstance_noMemo(st, Providers, failing, typ, stack) ==
    IF typ \notin DOMAIN Providers
    THEN [st EXCEPT !.err = Err("no provider", typ, <<>>)]
    ELSE IF typ \in stack THEN [st EXCEPT !.overflow = TRUE]
    ELSE LET p  == Providers[typ]
             a  == initArgs(st, Providers, failing, p.Deps, <<>>, stack \cup {typ})
         IN IF a.st.err # NoErr \/ a.st.overflow \/ a.st.panic # "" THEN a.st
            ELSE LET out == ProviderFunc(p, a.args, Len(a.st.calls) + 1, failing)
                     st1 == [a.st EXCEPT !.calls = Append(@,
                                [prov |-> p.Name, typ |-> typ, args |-> a.args,
                                 instance |-> out.instance, err |-> out.err])]
                 IN IF out.panic # "" THEN [st1 EXCEPT !.panic = out.panic]
                    ELSE IF out.err # NoErr THEN [st1 EXCEPT !.err = out.err]
                    ELSE [st1 EXCEPT
                            !.Instances = Put(@, typ, out.instance),
                            !.InstanceSlice = Append(@, out.instance),
                            !.ret = out.instance]

initInstance(st, Providers, failing, typ, stack) ==
    IF typ \in DOMAIN st.Instances THEN [st EXCEPT !.ret = st.Instances[typ]]
    ELSE IF typ \notin DOMAIN Providers
    THEN [st EXCEPT !.err = Err("no provider", typ, <<>>)]
    ELSE IF typ \in stack THEN [st EXCEPT !.overflow = TRUE]
    ELSE LET p  == Providers[typ]
             a  == initArgs(st, Providers, failing, p.Deps, <<>>, stack \cup {typ})
         IN IF a.st.err # NoErr \/ a.st.overflow \/ a.st.panic # "" THEN a.st
            ELSE LET out == ProviderFunc(p, a.args, Len(a.st.calls) + 1, failing)
                     st1 == [a.st EXCEPT !.calls = Append(@,
                                [prov |-> p.Name, typ |-> typ, args |-> a.args,
                                 instance |-> out.instance, err |-> out.err])]
                 IN IF out.panic # "" THEN [st1 EXCEPT !.panic = out.panic]
                    ELSE IF out.err # NoErr THEN [st1 EXCEPT !.err = out.err]
                    ELSE [st1 EXCEPT
                            !.Instances = Put(@, typ, out.instance),
                            !.InstanceSlice = Append(@, out.instance),
                            !.ret = out.instance]

\* The loop of initInstance over p.Deps (di.go:224-232).
initArgs(st, Providers, failing, deps, args, stack) ==
    IF deps = <<>> THEN [st |-> st, args |-> args]
    ELSE LET st1 == initInstance(st, Providers, failing, Head(deps), stack)
         IN IF st1.err # NoErr \/ st1.overflow \/ st1.panic # "" THEN [st |-> st1, args |-> args]
            ELSE initArgs(st1, Providers, failing, Tail(deps),
                          Append(args, st1.ret), stack)

\* Context.initInstances: Go ranges over ctx.Providers in the order provOrder.
RECURSIVE initInstances(_, _, _, _)
initInstances(st, Providers, failing, provOrder) ==
    IF provOrder = <<>> THEN st
    ELSE LET st1 == initInstance(st, Providers, failing, Head(provOrder), {})
         IN IF st1.err # NoErr \/ st1.overflow \/ st1.panic # "" THEN st1
            ELSE initInstances(st1, Providers, failing, Tail(provOrder))

\* A root argument of NewContext: a module function or a plain value.
Root(kind, arg) == [kind |-> kind, arg |-> arg]

\* di.go:44-56: a func(*Module) is taken as it is, any other value is wrapped.
rootFunc(r) ==
    IF r.kind = "mod" THEN ModuleFunc(r.arg, lib[r.arg])
    ELSE ModuleFunc(WrapperName, <<Call("AddInstance", r.arg)>>)

\* The orders Go may range over a map with the keys S.
Orders(S) == {o \in [1..Cardinality(S) -> S] : Range(o) = S}

\* The position of NewContext and what it has done: kind is "none" (not yet
\* called), "modules" (initModules has returned nil), "providers"
\* (initProviders has returned nil), or how it ended: "ok" (a context and a nil
\* error), "error" (nil and an error), "panic" (a module function or
\* Provider.Func panicked, err telling which panic), "overflow" (initInstance
\* recursed without end). ctx and err are the values
\* returned; built is the local ctx of NewContext, inits are the module
\* functions invoked and calls the provider functions invoked, in order, and
\* order is the order Go ranged over ctx.Providers in.
Outcome(kind, ctx, err, built, inits, calls, order) ==
    [kind |-> kind, ctx |-> ctx, err |-> err, built |-> built, inits |-> inits,
     calls |-> calls, order |-> order]

\* di.go:38-42
newContext ==
    [Modules |-> EmptyMap, Providers |-> EmptyMap, Instances |-> EmptyMap,
     InstanceSlice |-> <<>>]

\* NewContext up to the return of initModules (di.go:38-60).
NewContextModules(depOrMods) ==
    LET mods == [i \in DOMAIN depOrMods |-> rootFunc(depOrMods[i])]
        s == initModules([Modules |-> EmptyMap, inits |-> <<>>, err |-> NoErr,
                          panic |-> ""], mods)
        ctx == [newContext EXCEPT !.Modules = s.Modules]
    IN IF s.panic # ""
       THEN Outcome("panic", NilCtx, Err(s.panic, "", <<>>), ctx, s.inits, <<>>, <<>>)
       ELSE IF s.err # NoErr
       THEN Outcome("error", NilCtx, s.err, ctx, s.inits, <<>>, <<>>)
       ELSE Outcome("modules", NilCtx, NoErr, ctx, s.inits, <<>>, <<>>)

\* NewContext from there to the return of initProviders (di.go:61-63).
NewContextProviders(r, modOrder) ==
    LET s == initProviders(r.built.Modules, modOrder)
        ctx == [r.built EXCEPT !.Providers = s.Providers]
    IN IF s.err # NoErr
       THEN Outcome("error", NilCtx, s.err, ctx, r.inits, <<>>, <<>>)
       ELSE Outcome("providers", NilCtx, NoErr, ctx, r.inits, <<>>, <<>>)

\* NewContextInstances as it would be if it returned the context also with an
\* error of initInstances.
NewContextInstances_ctxOnError(r, provOrder, failing) ==
    LET s == initInstances([Instances |-> EmptyMap, InstanceSlice |-> <<>>,
                            calls |-> <<>>, ret |-> Value(""), err |-> NoErr,
                            overflow |-> FALSE, panic |-> ""],
                           r.built.Providers, failing, provOrder)
        ctx == [r.built EXCEPT !.Instances = s.Instances,
                               !.InstanceSlice = s.InstanceSlice]
    IN IF s.overflow
       THEN Outcome("overflow", NilCtx, NoErr, ctx, r.inits, s.calls, provOrder)
       ELSE IF s.panic # ""
       THEN Outcome("panic", NilCtx, Err(s.panic, "", <<>>), ctx, r.inits, s.calls, provOrder)
       ELSE IF s.err # NoErr
       THEN Outcome("error", ctx, s.err, ctx, r.inits, s.calls, provOrder)
       ELSE Outcome("ok", ctx, NoErr, ctx, r.inits, s.calls, provOrder)

\* NewContextInstances as it would be if InstanceSlice were filled by the loop
\* of initInstances, in the order it ranges over ctx.Providers.
NewContextInstances_sliceByRange(r, provOrder, failing) ==
    LET s == initInstances([Instances |-> EmptyMap, InstanceSlice |-> <<>>,
                            calls |-> <<>>, ret |-> Value(""), err |-> NoErr,
                            overflow |-> FALSE, panic |-> ""],
                           r.built.Providers, failing, provOrder)
        ctx == [r.built EXCEPT !.Instances = s.Instances,
                               !.InstanceSlice = IF s.err # NoErr \/ s.overflow \/ s.panic # ""
                                                 THEN s.InstanceSlice
                                                 ELSE [i \in DOMAIN provOrder |->
                                                        s.Instances[provOrder[i]]]]
    IN IF s.overflow
       THEN Outcome("overflow", NilCtx, NoErr, ctx, r.inits, s.calls, provOrder)
       ELSE IF s.panic # ""
       THEN Outcome("panic", NilCtx, Err(s.panic, "", <<>>), ctx, r.inits, s.calls, provOrder)
       ELSE IF s.err # NoErr
       THEN Outcome("error", NilCtx, s.err, ctx, r.inits, s.calls, provOrder)
       ELSE Outcome("ok", ctx, NoErr, ctx, r.inits, s.calls, provOrder)

\* NewContext from there to its return (di.go:64-67).
NewContextInstances(r, provOrder, failing) ==
    LET s == initInstances([Instances |-> EmptyMap, InstanceSlice |-> <<>>,
                            calls |-> <<>>, ret |-> Value(""), err |-> NoErr,
                            overflow |-> FALSE, panic |-> ""],
                           r.built.Providers, failing, provOrder)
        ctx == [r.built EXCEPT !.Instances = s.Instances,
                               !.InstanceSlice = s.InstanceSlice]
    IN IF s.overflow
       THEN Outcome("overflow", NilCtx, NoErr, ctx, r.inits, s.calls, provOrder)
       ELSE IF s.panic # ""
       THEN Outcome("panic", NilCtx, Err(s.panic, "", <<>>), ctx, r.inits, s.calls, provOrder)
       ELSE IF s.err # NoErr
       THEN Outcome("error", NilCtx, s.err, ctx, r.inits, s.calls, provOrder)
       ELSE Outcome("ok", ctx, NoErr, ctx, r.inits, s.calls, provOrder)

\* The zero value of type typ, and a variable of the program: its type and
\* its value.
Zero(typ) == [typ |-> typ, id |-> -1]
Var(typ, val) == [typ |-> typ, val |-> val]

\* Context.Get(dstPtr), dst being the variable dstPtr points to: what it
\* returns, and dst and the context after it (di.go:71-81).
\* A Get that takes a missing type's zero value for an instance and stores it.
Get_addZero(ctx, dst) ==
    IF dst.typ \in DOMAIN ctx.Instances
    THEN [ret |-> TRUE, dst |-> [dst EXCEPT !.val = ctx.Instances[dst.typ]], ctx |-> ctx]
    ELSE [ret |-> TRUE, dst |-> [dst EXCEPT !.val = Zero(dst.typ)],
          ctx |-> [ctx EXCEPT !.Instances = Put(@, dst.typ, Zero(dst.typ))]]

Get(ctx, dst) ==
    IF dst.typ \notin DOMAIN ctx.Instances
    THEN [ret |-> FALSE, dst |-> dst, ctx |-> ctx]
    ELSE [ret |-> TRUE, dst |-> [dst EXCEPT !.val = ctx.Instances[dst.typ]], ctx |-> ctx]

\* The panic of MustGet for a type that has no instance.
NoInstancePanic == "di: no instance"

\* Context.MustGet(dstPtr) (di.go:84-88).
MustGet(ctx, dst) ==
    LET g == Get(ctx, dst) IN
    [dst |-> g.dst, ctx |-> g.ctx, panic |-> IF g.ret THEN "" ELSE NoInstancePanic]

\* A field of a struct: its type, whether its name is exported, its value.
Field(typ, exported, val) == [typ |-> typ, exported |-> exported, val |-> val]

\* The panic of reflect.Value.Set on a field that is not exported.
UnexportedPanic == "reflect: reflect.Value.Set using value obtained using unexported field"

\* The loop of Context.Inject from field i on, s being the struct structPtr
\* points to (di.go:93-103): field.Set panics on a field that is not exported.
RECURSIVE injectFrom(_, _, _)
injectFrom(ctx, s, i) ==
    IF i > Len(s) THEN [dst |-> s, panic |-> "", ctx |-> ctx]
    ELSE IF s[i].typ \notin DOMAIN ctx.Instances THEN injectFrom(ctx, s, i + 1)
    ELSE IF ~s[i].exported THEN [dst |-> s, panic |-> UnexportedPanic, ctx |-> ctx]
    ELSE injectFrom(ctx, [s EXCEPT ![i].val = ctx.Instances[s[i].typ]], i + 1)

\* Context.Inject(structPtr)
Inject(ctx, s) == injectFrom(ctx, s, 1)

\* A call of the program on the context it got: op is the method, old the
\* destination before the call, dst after it, ret what the call returned,
\* panic the panic that ended it.
UserCall(op, old, dst, ret, panic) ==
    [op |-> op, old |-> old, dst |-> dst, ret |-> ret, panic |-> panic]
NoCall == UserCall("none", <<>>, <<>>, FALSE, "")

-----------------------------------------------------------------------------
(* package.go, with the Module and the Constructor it is written for        *)
(* (unnamed/part_004, unnamed/part_002:232-308).                            *)

\* newConstructor: a function that does not return exactly one value panics.
newConstructor(module, fname) ==
    [ Module |-> module,
      Name   |-> fname,
      Type   |-> Factories[fname].Type,
      Deps   |-> Factories[fname].Deps,
      panic  |-> IF Factories[fname].NumOut # 1
                 THEN "Constructor must return (result) or (result, error)" ELSE "" ]

\* newConstructorFromInstance
newConstructorFromInstance(module, instance) ==
    [ Module |-> module, Name |-> instance.typ, Type |-> instance.typ,
      Deps |-> <<>>, panic |-> "" ]

\* Module.add of that Module
pkgAdd(m, c) ==
    IF c.panic # "" THEN [m EXCEPT !.panic = c.panic]
    ELSE IF \E i \in DOMAIN m.Constructors : m.Constructors[i].Type = c.Type
    THEN [m EXCEPT !.panic = "Duplicate constructor in a module"]
    ELSE [m EXCEPT !.Constructors = Append(@, c)]

\* Module.AddConstructor
AddConstructor(m, fname) == pkgAdd(m, newConstructor(m.Name, fname))

\* Module.MarkPackageDep
MarkPackageDep(m, typ) ==
    IF \E i \in DOMAIN m.PackageDeps : m.PackageDeps[i] = typ
    THEN [m EXCEPT !.panic = "Duplicate package-level dependency in a module"]
    ELSE [m EXCEPT !.PackageDeps = Append(@, typ)]

\* Module.Import of that Module
pkgImport(m, name) ==
    IF \E i \in DOMAIN m.Imports : m.Imports[i] = name
    THEN [m EXCEPT !.panic = "Duplicate import in a module"]
    ELSE [m EXCEPT !.Imports = Append(@, name)]

\* One call of a module function's body on such a Module: the call Add of a
\* script is AddConstructor here and the call Dep is MarkPackageDep.
RECURSIVE pkgRunBody(_, _)
pkgRunBody(m, script) ==
    IF script = <<>> \/ m.panic # "" THEN m
    ELSE LET c == Head(script)
             m1 == CASE c.op = "Import"      -> pkgImport(m, c.arg)
                     [] c.op = "Add"         -> AddConstructor(m, c.arg)
                     [] c.op = "AddInstance" ->
                            pkgAdd(m, newConstructorFromInstance(m.Name, Value(c.arg)))
                     [] c.op = "Dep"         -> MarkPackageDep(m, c.arg)
         IN pkgRunBody(m1, Tail(script))

\* newModule of unnamed/part_004
pkgNewModule(f) ==
    pkgRunBody([Name |-> f.name, Imports |-> <<>>, Constructors |-> <<>>,
                PackageDeps |-> <<>>, panic |-> ""], f.script)

\* Package.initModule, on st = [Modules, err, panic] (package.go:40-72).
RECURSIVE pkgInitModule(_, _, _)
RECURSIVE pkgInitImports(_, _, _)
pkgInitModule(st, mfunc, prevNames) ==
    LET name == mfunc.name IN
    IF name \in DOMAIN st.Modules THEN st
    ELSE IF cyclePath(name, prevNames) # <<>>
    THEN [st EXCEPT !.err = Err("Cyclic import in modules", "",
                                cyclePath(name, prevNames))]
    ELSE LET m == pkgNewModule(mfunc)
         IN IF m.panic # "" THEN [st EXCEPT !.panic = m.panic]
            ELSE LET st2 == pkgInitImports(st, m.Imports, Append(prevNames, name))
                 IN IF st2.err # NoErr \/ st2.panic # "" THEN st2
                    ELSE [st2 EXCEPT !.Modules = Put(@, name, m)]

pkgInitImports(st, imports, prevNames) ==
    IF imports = <<>> THEN st
    ELSE LET st1 == pkgInitModule(st, importFunc(Head(imports)), prevNames)
         IN IF st1.err # NoErr \/ st1.panic # "" THEN st1
            ELSE pkgInitImports(st1, Tail(imports), prevNames)

\* Package.initModules
RECURSIVE pkgInitModules(_, _)
pkgInitModules(st, mfuncs) ==
    IF mfuncs = <<>> THEN st
    ELSE LET st1 == pkgInitModule(st, Head(mfuncs), <<>>)
         IN IF st1.err # NoErr \/ st1.panic # "" THEN st1
            ELSE pkgInitModules(st1, Tail(mfuncs))

\* The constructors of the modules named by modOrder, in that order.
RECURSIVE constructorsIn(_, _)
constructorsIn(Modules, modOrder) ==
    IF modOrder = <<>> THEN <<>>
    ELSE Modules[Head(modOrder)].Constructors \o constructorsIn(Modules, Tail(modOrder))

\* The first loop of Package.initConstructors over the constructors cs; st is
\* [Constructors, err] (package.go:76-85).
RECURSIVE addConstructors(_, _)
addConstructors(st, cs) ==
    IF cs = <<>> THEN st
    ELSE LET c == Head(cs) IN
         IF c.Type \in DOMAIN st.Constructors
         THEN [st EXCEPT !.err = Err("Duplicate constructors", c.Type,
                                     <<c.Module, st.Constructors[c.Type].Module>>)]
         ELSE addConstructors([st EXCEPT !.Constructors = Put(@, c.Type, c)], Tail(cs))

\* The first of the types deps that is not in the set have; "" when all are.
RECURSIVE firstMissing(_, _)
firstMissing(deps, have) ==
    IF deps = <<>> THEN ""
    ELSE IF Head(deps) \notin have THEN Head(deps)
    ELSE firstMissing(Tail(deps), have)

\* The first error among the constructors cs of module m, whose dependencies
\* must be in available (package.go:116-124).
RECURSIVE checkConstructors(_, _, _)
checkConstructors(m, cs, available) ==
    IF cs = <<>> THEN NoErr
    ELSE LET d == firstMissing(Head(cs).Deps, available) IN
         IF d # "" THEN Err("Unresolved dependency", d, <<Head(cs).Name, m.Name>>)
         ELSE checkConstructors(m, Tail(cs), available)

\* availableDeps as it would be if it held the type of every constructor of
\* the package.
pkgAvailableDeps_global(Modules, m) ==
    UNION {{c.Type : c \in Range(Modules[n].Constructors)} : n \in DOMAIN Modules}
    \cup Range(m.PackageDeps)

\* availableDeps as the constructors' check of module m finds it: the types of
\* the constructors of the modules m imports itself, of m's own constructors,
\* and m's package-level dependencies (package.go:90-114).
pkgAvailableDeps(Modules, m) ==
    UNION {{c.Type : c \in Range(Modules[imp].Constructors)} : imp \in Range(m.Imports)}
    \cup {c.Type : c \in Range(m.Constructors)}
    \cup Range(m.PackageDeps)

\* One pass of the second loop of Package.initConstructors, for module m: the
\* error it returns, or nil (package.go:89-125).
checkModule(Modules, Constructors, m) ==
    LET d == firstMissing(m.PackageDeps, DOMAIN Constructors) IN
    IF d # "" THEN Err("Unresolved package-level dependency", d, <<m.Name>>)
    ELSE checkConstructors(m, m.Constructors, pkgAvailableDeps(Modules, m))

\* The second loop of Package.initConstructors, Go ranging over p.Modules in
\* the order modOrder.
RECURSIVE checkModules(_, _, _)
checkModules(Modules, Constructors, modOrder) ==
    IF modOrder = <<>> THEN NoErr
    ELSE LET err == checkModule(Modules, Constructors, Modules[Head(modOrder)])
         IN IF err # NoErr THEN err
            ELSE checkModules(Modules, Constructors, Tail(modOrder))

\* package.go:15-19
newPackage == [Modules |-> EmptyMap, Constructors |-> EmptyMap]

-----------------------------------------------------------------------------
(* The Context that constructs its instances on demand (unnamed/part_001).  *)

\* Module.Import, Module.Depend and Module.Add of this Module append to a
\* slice and check nothing.
RECURSIVE lazyRunBody(_, _)
lazyRunBody(m, script) ==
    IF script = <<>> THEN m
    ELSE LET c == Head(script)
             m1 == CASE c.op = "Import" -> [m EXCEPT !.Imports = Append(@, c.arg)]
                     [] c.op = "Add"    -> [m EXCEPT !.Providers = Append(@, c.arg)]
                     [] c.op = "Dep"    -> [m EXCEPT !.Dependencies = Append(@, c.arg)]
         IN lazyRunBody(m1, Tail(script))

\* module := mfunc(); module.Name = name: a module function of this variant
\* returns the *Module it has built.
lazyNewModule(mfunc) ==
    lazyRunBody([Name |-> mfunc.name, Imports |-> <<>>, Providers |-> <<>>,
                 Dependencies |-> <<>>, ProviderMap |-> EmptyMap,
                 DependencyMap |-> {}], mfunc.script)

\* newProvider of this variant: one or two results are accepted.
lazyNewProvider(module, fname) ==
    [ Module       |-> module,
      Name         |-> fname,
      Type         |-> Factories[fname].Type,
      Dependencies |-> Factories[fname].Deps,
      NumOut       |-> Factories[fname].NumOut ]

\* Context.addProvider, on st = [Modules, Providers, err], for the provider
\* function fname of the module name that is in st.Modules; with the store
\* into module.ProviderMap that follows its return.
addProvider(st, name, fname) ==
    LET provider == lazyNewProvider(name, fname) IN
    IF provider.Type \in DOMAIN st.Providers
    THEN [st EXCEPT !.err = Err("duplicate provider", provider.Type, <<>>)]
    ELSE [st EXCEPT !.Providers = Put(@, provider.Type, provider),
                    !.Modules[name].ProviderMap = Put(@, provider.Type, provider)]

\* The loop of addModule over module.Providers from the i-th on, and the
\* DependencyMap it fills after the loop.
RECURSIVE addModuleProviders(_, _, _)
addModuleProviders(st, name, i) ==
    LET module == st.Modules[name] IN
    IF i > Len(module.Providers)
    THEN [st EXCEPT !.Modules[name].DependencyMap = Range(module.Dependencies)]
    ELSE LET st1 == addProvider(st, name, module.Providers[i])
         IN IF st1.err # NoErr THEN st1 ELSE addModuleProviders(st1, name, i + 1)

\* Context.addModule
RECURSIVE addModule(_, _, _)
RECURSIVE addImports(_, _, _)
addModule(st, mfunc, importPath) ==
    IF mfunc.name \in DOMAIN st.Modules THEN st
    ELSE IF cyclePath(mfunc.name, importPath) # <<>>
    THEN [st EXCEPT !.err = Err("cyclic module imports", "",
                                 cyclePath(mfunc.name, importPath))]
    ELSE LET module == lazyNewModule(mfunc)
             st1    == addImports(st, module.Imports, Append(importPath, mfunc.name))
         IN IF st1.err # NoErr THEN st1
            ELSE addModuleProviders([st1 EXCEPT !.Modules = Put(@, mfunc.name, module)],
                              mfunc.name, 1)

\* The loop of addModule over module.Imports.
addImports(st, imports, importPath) ==
    IF imports = <<>> THEN st
    ELSE LET st1 == addModule(st, importFunc(Head(imports)), importPath)
         IN IF st1.err # NoErr THEN st1
            ELSE addImports(st1, Tail(imports), importPath)

\* The loop of NewContext over moduleFuncs.
RECURSIVE addModules(_, _)
addModules(st, mfuncs) ==
    IF mfuncs = <<>> THEN st
    ELSE LET st1 == addModule(st, Head(mfuncs), <<>>)
         IN IF st1.err # NoErr THEN st1 ELSE addModules(st1, Tail(mfuncs))

\* The elements of the sequence order that are in the set S, in that order.
InOrder(order, S) == LET in(t) == t \in S IN SelectSeq(order, in)

\* The body of the loop of checkProviderDependencies for one module: the
\* error it returns. Go ranges over a map of types in the order typeOrder.
checkProviderDependenciesOf(ctx, module, typeOrder) ==
    LET imported  == UNION {DOMAIN ctx.Modules[module.Imports[i]].ProviderMap :
                               i \in DOMAIN module.Imports}
        own       == DOMAIN module.ProviderMap
        absent(t) == t \notin DOMAIN ctx.Providers
        external  == SelectSeq(InOrder(typeOrder, module.DependencyMap), absent)
        available == imported \cup own \cup module.DependencyMap
        lacks(t)  == \E i \in DOMAIN module.ProviderMap[t].Dependencies :
                        module.ProviderMap[t].Dependencies[i] \notin available
        lacking   == SelectSeq(InOrder(typeOrder, own), lacks)
        missing(d) == d \notin available
    IN IF external # <<>>
       THEN Err("unresolved external dependency", external[1], <<>>)
       ELSE IF lacking # <<>>
       THEN Err("unresolved dependency",
                SelectSeq(module.ProviderMap[lacking[1]].Dependencies, missing)[1], <<>>)
       ELSE NoErr

\* Context.checkProviderDependencies: Go ranges over ctx.Modules in the order
\* modOrder.
RECURSIVE checkProviderDependencies(_, _, _)
checkProviderDependencies(ctx, modOrder, typeOrder) ==
    IF modOrder = <<>> THEN NoErr
    ELSE LET err == checkProviderDependenciesOf(ctx, ctx.Modules[Head(modOrder)], typeOrder)
         IN IF err # NoErr THEN err
            ELSE checkProviderDependencies(ctx, Tail(modOrder), typeOrder)

\* Provider.create of this variant calls the function: the n-th invocation of
\* a factory makes a new object, n; an (instance, error) factory in failing
\* returns its error, and a nil error is left nil (result[1].IsNil()).
lazyCall(p, n, failing) ==
    IF p.NumOut = 2 /\ p.Name \in failing
    THEN [instance |-> Value(""), err |-> FactoryErr(p.Name)]
    ELSE [instance |-> [typ |-> p.Type, id |-> n], err |-> NoErr]

\* Context.getOrInit on st = [Instances, ret, err, overflow, made]; made lists
\* the instances stored in ctx.Instances, in order. The map path is never
\* written, so a type that is on the call stack again takes the same calls
\* again, without end.
RECURSIVE getOrInit(_, _, _, _, _)
RECURSIVE create(_, _, _, _, _)
getOrInit(st, Providers, failing, type0, stack) ==
    IF type0 \in DOMAIN st.Instances THEN [st EXCEPT !.ret = st.Instances[type0]]
    ELSE IF type0 \notin DOMAIN Providers
    THEN [st EXCEPT !.err = Err("no provider", type0, <<>>)]
    ELSE IF type0 \in stack THEN [st EXCEPT !.overflow = TRUE]
    ELSE LET p   == Providers[type0]
             st1 == create(st, Providers, failing, p.Dependencies, stack \cup {type0})
         IN IF st1.err # NoErr \/ st1.overflow THEN st1
            ELSE LET out == lazyCall(p, Len(st1.made) + 1, failing)
                 IN IF out.err # NoErr THEN [st1 EXCEPT !.err = out.err]
                    ELSE [st1 EXCEPT !.Instances = Put(@, type0, out.instance),
                                     !.made = Append(@, out.instance),
                                     !.ret = out.instance]

\* The loop of Provider.create over p.Dependencies.
create(st, Providers, failing, deps, stack) ==
    IF deps = <<>> THEN st
    ELSE LET st1 == getOrInit(st, Providers, failing, Head(deps), stack)
         IN IF st1.err # NoErr \/ st1.overflow THEN st1
            ELSE create(st1, Providers, failing, Tail(deps), stack)

\* NewContext of this variant: it adds the modules and checks the
\* dependencies of the providers, and constructs no instance.
lazyContext == [Modules |-> EmptyMap, Providers |-> EmptyMap, Instances |-> EmptyMap]

LazyNewContext(mfuncs, nameOrder, typeOrder) ==
    LET st  == addModules([Modules |-> EmptyMap, Providers |-> EmptyMap, err |-> NoErr],
                          mfuncs)
        ctx == [lazyContext EXCEPT !.Modules = st.Modules, !.Providers = st.Providers]
    IN IF st.err # NoErr
       THEN Outcome("error", NilCtx, st.err, ctx, <<>>, <<>>, <<>>)
       ELSE LET modOrder == InOrder(nameOrder, DOMAIN ctx.Modules)
                err      == checkProviderDependencies(ctx, modOrder, typeOrder)
            IN IF err # NoErr
               THEN Outcome("error", NilCtx, err, ctx, <<>>, <<>>, modOrder)
               ELSE Outcome("ok", ctx, NoErr, ctx, <<>>, <<>>, <<>>)

\* The lookup of Context.Fill for a field (part_001:208) and its field.Set
\* (213), which panics on a field that is not exported.
fillLookup(Instances, field) ==
    IF field.typ \in DOMAIN Instances
    THEN [ok |-> TRUE, instance |-> Instances[field.typ]]
    ELSE [ok |-> FALSE, instance |-> Zero(field.typ)]

fillSet(s, i, instance) ==
    IF ~s[i].exported THEN [dst |-> s, panic |-> UnexportedPanic]
    ELSE [dst |-> [s EXCEPT ![i].val = instance], panic |-> ""]

\* Context.Fill(dstPtr) from field i on, s being the struct dstPtr points to.
RECURSIVE fillFrom(_, _, _)
fillFrom(ctx, s, i) ==
    IF i > Len(s) THEN [dst |-> s, panic |-> ""]
    ELSE LET l == fillLookup(ctx.Instances, s[i]) IN
         IF ~l.ok THEN fillFrom(ctx, s, i + 1)
         ELSE LET f == fillSet(s, i, l.instance) IN
              IF f.panic # "" THEN f ELSE fillFrom(ctx, f.dst, i + 1)

\* Fill(dstPtr, modules...) after its call of NewContext, which returned
\* r.ctx and r.err (part_001:14-18): dst after it, the error it returns and
\* the panic that ends it.
Fill(s, r) ==
    IF r.err # NoErr THEN [dst |-> s, ret |-> r.err, panic |-> ""]
    ELSE LET f == fillFrom(r.ctx, s, 1)
         IN [dst |-> f.dst, ret |-> NoErr, panic |-> f.panic]

\* The goroutines of a program that share one lazily constructing Context:
\* mu is the goroutine that holds ctx.mu ("" when it is free); get is the
\* goroutine that calls ctx.Get (then GetByType), with the instances getOrInit
\* makes and the count of those it has stored; fill is the goroutine that
\* calls ctx.Fill; log holds every access to ctx.Instances made so far: who
\* made it, whether it read or wrote, whether it held ctx.mu and whether
\* another goroutine was writing the map at that moment; fatal tells that the
\* runtime has ended the program with "concurrent map read and map write".
Access(by, op, held, racing) == [by |-> by, op |-> op, held |-> held, racing |-> racing]

NoLazy ==
    [ mu   |-> "",
      get  |-> [pc |-> "idle", typ |-> "", made |-> <<>>, k |-> 0, ret |-> Zero(""),
                err |-> NoErr],
      fill |-> [pc |-> "idle", i |-> 0, old |-> <<>>, dst |-> <<>>, found |-> Zero("")],
      log  |-> {},
      fatal |-> FALSE ]

-----------------------------------------------------------------------------
(* app.go                                                                   *)

\* context.DeadlineExceeded, and the error a service's own method returns.
ErrDeadline == Err("context deadline exceeded", "", <<>>)
ServiceErr(op, typ) == Err(op, typ, <<>>)

\* The App: pc is the position of the running call, entry the method the
\* program called on it (Run, Start or Stop). services, i and err are the
\* locals of Start and Stop, cur is the goroutine withTimeout waits for, done
\* tells that ctx.Done() of the call's context is closed, startRet, stopRet and
\* runRet are what Start, Stop and Run returned, started is App.started and k
\* the index of the rollback loop (the variant of Start that rolls back).
NoApp ==
    [pc |-> "new", entry |-> "", Context |-> NilCtx, services |-> <<>>, i |-> 0,
     err |-> NoErr, cur |-> 0, done |-> FALSE, startRet |-> NoErr,
     stopRet |-> NoErr, runRet |-> NoErr, started |-> <<>>, k |-> 0]

\* The instances of InstanceSlice that have the method op, in its order
\* (app.go:97-103, 132-138).
RECURSIVE servicesOf(_, _)
servicesOf(slice, op) ==
    IF slice = <<>> THEN <<>>
    ELSE IF op \in methods[Head(slice).typ]
         THEN <<Head(slice)>> \o servicesOf(Tail(slice), op)
         ELSE servicesOf(Tail(slice), op)

\* go func() { ch <- fn() }() of withTimeout, fn being the method op of
\* service: the goroutine is "running" fn from its launch until fn returns, and
\* then has "sent" the result res of fn on its channel, which holds one value.
spawn(op, service) == [op |-> op, svc |-> service.typ, st |-> "running", res |-> NoErr]

\* A select of withTimeout without the case <-ctx.Done().
canTimeout_never == FALSE

\* The select of withTimeout can take the case <-ctx.Done().
canTimeout == app.done

\* The select of withTimeout can take the case err := <-ch.
canReceive == gs[app.cur].st = "sent"

-----------------------------------------------------------------------------
(* The programs of the model and the arguments NewContext gets.             *)

\* The types of the plain values passed to NewContext: one that a factory
\* provides too, and one that none does.
ValueTypes == {"X", "S"}

ImportCalls == {Call("Import", n) : n \in Names}
AddCalls == {Call("Add", f) : f \in DOMAIN Factories} \cup {Call("Dep", "X")}

\* Every way to give each of names a sequence of calls, budget calls in all.
RECURSIVE Bodies(_, _, _)
Bodies(names, calls, budget) ==
    IF names = {} THEN {EmptyMap}
    ELSE LET n == CHOOSE x \in names : TRUE IN
         UNION {{ Put(rest, n, s) : s \in [1..k -> calls],
                                    rest \in Bodies(names \ {n}, calls, budget - k) }
                : k \in 0..budget}

\* The base program: A imports B, and each module adds one provider.
BaseImports == [A |-> <<Call("Import", "B")>>, B |-> <<>>, C |-> <<>>]
BaseAdds == [A |-> <<Call("Add", "newZ")>>, B |-> <<Call("Add", "newY")>>,
             C |-> <<Call("Add", "newX")>>]
BaseRoots == <<Root("mod", "A"), Root("mod", "C")>>

ModRoots == {Root("mod", n) : n \in Names}
AllRoots == ModRoots \cup {Root("val", t) : t \in ValueTypes}
RootSeqs(items) == UNION {[1..k -> items] : k \in 0..MaxRoots}

Program(imports, adds) == [n \in Names |-> imports[n] \o adds[n]]

\* The programs and arguments the model starts from: every import structure
\* over the base providers, every set of providers over the base imports, and
\* every list of arguments over the base program.
Inputs(l, r) ==
    \/ \E i \in Bodies(Names, ImportCalls, MaxImports) :
          l = Program(i, BaseAdds) /\ r \in RootSeqs(ModRoots)
    \/ \E a \in Bodies(Names, AddCalls, MaxAdds) :
          l = Program(BaseImports, a) /\ r = BaseRoots
    \/ l = Program(BaseImports, BaseAdds) /\ r \in RootSeqs(AllRoots)

\* The factories that can return an error.
Failable == {f \in DOMAIN Factories : Factories[f].NumOut = 2}

NoOutcome == Outcome("none", NilCtx, NoErr, newContext, <<>>, <<>>, <<>>)

-----------------------------------------------------------------------------
(* The construction of a context.                                           *)

Init ==
    /\ Inputs(lib, roots)
    /\ result = NoOutcome
    /\ methods = [t \in Types \cup ValueTypes |-> {}]
    /\ app = NoApp
    /\ gs = <<>>
    /\ user = NoCall
    /\ lazy = NoLazy

\* NewContext(roots...) runs initModules.
CallInitModules ==
    /\ result.kind = "none"
    /\ result' = NewContextModules(roots)
    /\ UNCHANGED <<lib, roots, methods, app, gs, user, lazy>>

\* NewContext runs initProviders, Go ranging over ctx.Modules in some order.
CallInitProviders ==
    /\ result.kind = "modules"
    /\ \E modOrder \in Orders(DOMAIN result.built.Modules) :
          result' = NewContextProviders(result, modOrder)
    /\ UNCHANGED <<lib, roots, methods, app, gs, user, lazy>>

\* NewContext runs initInstances, Go ranging over ctx.Providers in some order,
\* and returns.
CallInitInstances ==
    /\ result.kind = "providers"
    /\ \E provOrder \in Orders(DOMAIN result.built.Providers) :
       \E failing \in SUBSET Failable :
          result' = NewContextInstances(result, provOrder, failing)
    /\ UNCHANGED <<lib, roots, methods, app, gs, user, lazy>>

Next == CallInitModules \/ CallInitProviders \/ CallInitInstances

Spec == Init /\ [][Next]_vars

-----------------------------------------------------------------------------
(* The lifecycle of an App (app.go:1-182).                                  *)

\* The methods a type of the program can have in this variant of app.go.
MethodSets == SUBSET {"Start", "Stop"}

\* The lists of arguments NewApp gets: the base program's root modules, in
\* either order.
AppRoots == {BaseRoots, <<BaseRoots[2], BaseRoots[1]>>}

\* The programs the App is built from: the base program, the types X, Y and Z
\* having any of the methods.
InitApp ==
    /\ lib = Program(BaseImports, BaseAdds)
    /\ roots \in AppRoots
    /\ result = NoOutcome
    /\ \E mx \in MethodSets, my \in MethodSets, mz \in MethodSets :
          methods = [X |-> mx, Y |-> my, Z |-> mz, S |-> {"Start", "Stop"}]
    /\ app = NoApp
    /\ gs = <<>>
    /\ user = NoCall
    /\ lazy = NoLazy

\* NewApp(roots...) after its call of NewContext has returned: with an error
\* of NewContext there is no App (app.go:43-56).
NewApp ==
    /\ app.pc = "new"
    /\ result.kind \in {"ok", "error"}
    /\ app' = IF result.kind = "ok"
              THEN [app EXCEPT !.pc = "created", !.Context = result.ctx]
              ELSE [app EXCEPT !.pc = "failed", !.err = result.err]
    /\ UNCHANGED <<lib, roots, result, methods, gs, user, lazy>>

\* The head of App.Start (app.go:94-106).
beginStart(a) ==
    [a EXCEPT !.pc = "startLoop", !.done = FALSE, !.i = 1, !.err = NoErr,
              !.services = servicesOf(a.Context.InstanceSlice, "Start")]

\* The head of App.Stop (app.go:129-141).
beginStop(a) ==
    [a EXCEPT !.pc = "stopLoop", !.done = FALSE, !.i = 1, !.err = NoErr,
              !.services = servicesOf(a.Context.InstanceSlice, "Stop")]

\* The program calls app.Run(), app.Start(ctx) or app.Stop(ctx).
CallApp ==
    /\ app.pc = "created"
    /\ \E entry \in {"Run", "Start", "Stop"} :
          app' = IF entry = "Stop" THEN [beginStop(app) EXCEPT !.entry = entry]
                 ELSE [beginStart(app) EXCEPT !.entry = entry]
    /\ UNCHANGED <<lib, roots, result, methods, gs, user, lazy>>

\* The deadline of the context of the running Start or Stop passes.
Expire ==
    /\ app.pc \in {"startLoop", "startSelect", "stopLoop", "stopSelect",
                   "rollbackLoop", "rollbackSelect"}
    /\ ~app.done
    /\ app' = [app EXCEPT !.done = TRUE]
    /\ UNCHANGED <<lib, roots, result, methods, gs, user, lazy>>

\* The method a goroutine runs returns, with nil or with an error of its own,
\* and the goroutine sends the result on its channel (app.go:173). A method
\* that never returns is a goroutine that stays "running".
GoReturn ==
    /\ \E g \in DOMAIN gs :
          /\ gs[g].st = "running"
          /\ \E res \in {NoErr, ServiceErr(gs[g].op, gs[g].svc)} :
                gs' = [gs EXCEPT ![g].st = "sent", ![g].res = res]
    /\ UNCHANGED <<lib, roots, result, methods, app, user, lazy>>

\* The loop of App.Start reaches withTimeout for the next service, or ends
\* and Start returns nil (app.go:107-108, 123-124).
StartNext ==
    /\ app.pc = "startLoop"
    /\ IF app.i <= Len(app.services)
       THEN /\ gs' = Append(gs, spawn("Start", app.services[app.i]))
            /\ app' = [app EXCEPT !.pc = "startSelect", !.cur = Len(gs) + 1]
       ELSE /\ app' = [app EXCEPT !.pc = "startDone", !.startRet = NoErr]
            /\ gs' = gs
    /\ UNCHANGED <<lib, roots, result, methods, user, lazy>>

\* What the select of withTimeout can return (app.go:176-181).
selected == {ErrDeadline : x \in {y \in {TRUE} : canTimeout}}
            \cup {gs[app.cur].res : x \in {y \in {TRUE} : canReceive}}

\* A Start that, like Stop, goes on to the next service whatever withTimeout
\* returned.
StartSelect_continue ==
    /\ app.pc = "startSelect"
    /\ \E err \in selected :
          app' = [app EXCEPT !.pc = "startLoop", !.i = @ + 1,
                             !.err = IF err # NoErr /\ @ = NoErr THEN err ELSE @]
    /\ UNCHANGED <<lib, roots, result, methods, gs, user, lazy>>

\* withTimeout returns in App.Start: nil goes on to the next service, an
\* error breaks the loop and is returned (app.go:108-121).
StartSelect ==
    /\ app.pc = "startSelect"
    /\ \E err \in selected :
          app' = IF err = NoErr
                 THEN [app EXCEPT !.pc = "startLoop", !.i = @ + 1, !.err = err]
                 ELSE [app EXCEPT !.pc = "startDone", !.err = err, !.startRet = err]
    /\ UNCHANGED <<lib, roots, result, methods, gs, user, lazy>>

\* App.Run after runStart: with an error it calls runStop at once, otherwise
\* when the signal arrives (app.go:60-69).
RunStop ==
    /\ app.pc = "startDone"
    /\ app.entry = "Run"
    /\ app' = beginStop(app)
    /\ UNCHANGED <<lib, roots, result, methods, gs, user, lazy>>

\* What App.Stop returns with err as the first error (app.go:150-160).
stopResult(err) == IF err = ErrDeadline THEN NoErr ELSE err

\* The loop of App.Stop reaches withTimeout for the next service, or ends and
\* Stop returns; in Run, Run returns (app.go:142-143, 150-160, 61-62, 69).
StopNext ==
    /\ app.pc = "stopLoop"
    /\ IF app.i <= Len(app.services)
       THEN /\ gs' = Append(gs, spawn("Stop", app.services[app.i]))
            /\ app' = [app EXCEPT !.pc = "stopSelect", !.cur = Len(gs) + 1]
       ELSE /\ app' = [app EXCEPT
                         !.pc = "stopDone",
                         !.stopRet = stopResult(app.err),
                         !.runRet = IF app.entry # "Run" THEN NoErr
                                    ELSE IF app.startRet # NoErr THEN app.startRet
                                    ELSE stopResult(app.err)]
            /\ gs' = gs
    /\ UNCHANGED <<lib, roots, result, methods, user, lazy>>

\* A Stop that, like Start, leaves its loop at the first error and returns it.
StopSelect_break ==
    /\ app.pc = "stopSelect"
    /\ \E stopErr \in selected :
          app' = IF stopErr = NoErr
                 THEN [app EXCEPT !.pc = "stopLoop", !.i = @ + 1]
                 ELSE [app EXCEPT !.pc = "stopDone", !.err = stopErr,
                                  !.stopRet = stopResult(stopErr)]
    /\ UNCHANGED <<lib, roots, result, methods, gs, user, lazy>>

\* withTimeout returns in App.Stop: the first error is kept and the loop goes
\* on (app.go:143-147).
StopSelect ==
    /\ app.pc = "stopSelect"
    /\ \E stopErr \in selected :
          app' = [app EXCEPT !.pc = "stopLoop", !.i = @ + 1,
                             !.err = IF stopErr # NoErr /\ @ = NoErr THEN stopErr ELSE @]
    /\ UNCHANGED <<lib, roots, result, methods, gs, user, lazy>>

NextApp ==
    \/ CallInitModules \/ CallInitProviders \/ CallInitInstances
    \/ NewApp \/ CallApp \/ Expire \/ GoReturn
    \/ StartNext \/ StartSelect \/ RunStop \/ StopNext \/ StopSelect

SpecApp == InitApp /\ [][NextApp]_vars

\* The App under a scheduler that lets the goroutine of Run, Start or Stop
\* take its next step whenever it can, and with a context whose deadline
\* passes. Nothing makes the method of a service return.
LiveApp ==
    /\ WF_vars(StartNext) /\ WF_vars(StartSelect) /\ WF_vars(RunStop)
    /\ WF_vars(StopNext) /\ WF_vars(StopSelect)
    /\ WF_vars(Expire)

\* The programs of InitApp with the arguments of NewApp in the base order.
InitAppLive == InitApp /\ roots = BaseRoots

SpecAppLive == InitAppLive /\ [][NextApp]_vars /\ LiveApp

-----------------------------------------------------------------------------
(* withTimeout with its channel (app.go:170-182). Here a goroutine of gs    *)
(* has its channel ch, the values buffered in it, and is "running" (in the  *)
(* method), "returned" (at the send ch <- fn()) or "ended".                 *)

\* The capacity of the channel: make(chan error, 1).
ChanCap == 1

\* go func() { ch <- fn() }() with ch := make(chan error, 1).
chanSpawn(op, service) ==
    [op |-> op, svc |-> service.typ, st |-> "running", res |-> NoErr, ch |-> <<>>]

\* A send on an unbuffered channel: it completes only while the receiver
\* waits in the select on this channel.
canSend_unbuffered(g) ==
    app.pc \in {"startSelect", "stopSelect"} /\ app.cur = g /\ gs[g].ch = <<>>

\* The send of goroutine g on its channel can complete: the buffer has room.
canSend(g) == Len(gs[g].ch) < ChanCap

\* The loop of App.Start or App.Stop reaches withTimeout for the next
\* service, or ends and the method returns (app.go:107-108, 123-124,
\* 142-143, 150-160).
ChanNext ==
    /\ app.pc \in {"startLoop", "stopLoop"}
    /\ LET op == IF app.pc = "startLoop" THEN "Start" ELSE "Stop" IN
       IF app.i <= Len(app.services)
       THEN /\ gs' = Append(gs, chanSpawn(op, app.services[app.i]))
            /\ app' = [app EXCEPT !.cur = Len(gs) + 1,
                         !.pc = IF op = "Start" THEN "startSelect" ELSE "stopSelect"]
       ELSE /\ gs' = gs
            /\ app' = IF op = "Start"
                      THEN [app EXCEPT !.pc = "startDone", !.startRet = NoErr]
                      ELSE [app EXCEPT
                              !.pc = "stopDone",
                              !.stopRet = stopResult(app.err),
                              !.runRet = IF app.entry # "Run" THEN NoErr
                                         ELSE IF app.startRet # NoErr THEN app.startRet
                                         ELSE stopResult(app.err)]
    /\ UNCHANGED <<lib, roots, result, methods, user, lazy>>

\* The method a goroutine runs returns, with nil or with an error of its own
\* (fn() of app.go:173). A method that never returns stays "running".
ChanReturn ==
    /\ \E g \in DOMAIN gs :
          /\ gs[g].st = "running"
          /\ \E res \in {NoErr, ServiceErr(gs[g].op, gs[g].svc)} :
                gs' = [gs EXCEPT ![g].st = "returned", ![g].res = res]
    /\ UNCHANGED <<lib, roots, result, methods, app, user, lazy>>

\* The send ch <- of a goroutine completes and the goroutine ends (app.go:173).
ChanSend ==
    /\ \E g \in DOMAIN gs :
          /\ gs[g].st = "returned"
          /\ canSend(g)
          /\ gs' = [gs EXCEPT ![g].st = "ended", ![g].ch = Append(@, gs[g].res)]
    /\ UNCHANGED <<lib, roots, result, methods, app, user, lazy>>

\* App.Start and App.Stop after withTimeout has returned err (app.go:108-121,
\* 143-147).
afterTimeout(a, err) ==
    IF a.pc = "startSelect"
    THEN IF err = NoErr
         THEN [a EXCEPT !.pc = "startLoop", !.i = @ + 1, !.err = err]
         ELSE [a EXCEPT !.pc = "startDone", !.err = err, !.startRet = err]
    ELSE [a EXCEPT !.pc = "stopLoop", !.i = @ + 1,
                   !.err = IF err # NoErr /\ @ = NoErr THEN err ELSE @]

\* The select of withTimeout takes the case <-ctx.Done() when the context is
\* done, or the case err := <-ch when the channel holds a value (app.go:176-181).
ChanSelect ==
    /\ app.pc \in {"startSelect", "stopSelect"}
    /\ \/ /\ canTimeout
          /\ app' = afterTimeout(app, ErrDeadline)
          /\ gs' = gs
       \/ /\ gs[app.cur].ch # <<>>
          /\ app' = afterTimeout(app, Head(gs[app.cur].ch))
          /\ gs' = [gs EXCEPT ![app.cur].ch = Tail(@)]
    /\ UNCHANGED <<lib, roots, result, methods, user, lazy>>

NextChan ==
    \/ CallInitModules \/ CallInitProviders \/ CallInitInstances
    \/ NewApp \/ CallApp \/ Expire \/ RunStop
    \/ ChanNext \/ ChanReturn \/ ChanSend \/ ChanSelect

\* The base program, X and Y being services with Start and Stop.
InitChan ==
    /\ lib = Program(BaseImports, BaseAdds)
    /\ roots = BaseRoots
    /\ result = NoOutcome
    /\ methods = [X |-> {"Start", "Stop"}, Y |-> {"Start", "Stop"}, Z |-> {}, S |-> {}]
    /\ app = NoApp
    /\ gs = <<>>
    /\ user = NoCall
    /\ lazy = NoLazy

SpecChan == InitChan /\ [][NextChan]_vars

\* A scheduler that lets the goroutine of Run, Start or Stop take its next
\* step and lets a goroutine of withTimeout whose method has returned go on to
\* its send, with a context whose deadline passes. Nothing makes the method of
\* a service return.
LiveChan ==
    /\ WF_vars(ChanNext) /\ WF_vars(ChanSelect) /\ WF_vars(RunStop)
    /\ WF_vars(ChanSend)
    /\ WF_vars(Expire)

SpecChanLive == SpecChan /\ LiveChan

-----------------------------------------------------------------------------
(* App.Start that rolls back (app.go:184-330).                              *)

\* The methods a type of the program can have in this variant of app.go.
CloserMethodSets == SUBSET {"Start", "Close"}

InitRollback ==
    /\ lib = Program(BaseImports, BaseAdds)
    /\ roots \in AppRoots
    /\ result = NoOutcome
    /\ \E mx \in CloserMethodSets, my \in CloserMethodSets, mz \in CloserMethodSets :
          methods = [X |-> mx, Y |-> my, Z |-> mz, S |-> {"Start", "Close"}]
    /\ app = NoApp
    /\ gs = <<>>
    /\ user = NoCall
    /\ lazy = NoLazy

\* The program calls app.Start(ctx) on the App it has created, itself or
\* through app.Run() (app.go:245, 264-273).
CallStart ==
    /\ app.pc = "created"
    /\ app' = [beginStart(app) EXCEPT !.entry = "Start"]
    /\ UNCHANGED <<lib, roots, result, methods, gs, user, lazy>>

\* A Start whose loop over app.started begins at the first element and so ends
\* after it.
RollbackStartSelect_fromFirst ==
    /\ app.pc = "startSelect"
    /\ \E err \in selected :
          app' = IF err = NoErr
                 THEN [app EXCEPT !.pc = "startLoop", !.i = @ + 1,
                                  !.started = Append(@, app.services[app.i])]
                 ELSE IF Len(app.started) = 0
                 THEN [app EXCEPT !.pc = "startDone", !.err = err, !.startRet = err]
                 ELSE [app EXCEPT !.pc = "rollbackLoop", !.err = err, !.k = 1]
    /\ UNCHANGED <<lib, roots, result, methods, gs, user, lazy>>

\* withTimeout returns in the loop of Start: with nil the service is appended
\* to app.started; with an error Start returns it at once when nothing has
\* started, and otherwise goes through app.started from its last element
\* (app.go:275-286).
RollbackStartSelect ==
    /\ app.pc = "startSelect"
    /\ \E err \in selected :
          app' = IF err = NoErr
                 THEN [app EXCEPT !.pc = "startLoop", !.i = @ + 1,
                                  !.started = Append(@, app.services[app.i])]
                 ELSE IF Len(app.started) = 0
                 THEN [app EXCEPT !.pc = "startDone", !.err = err, !.startRet = err]
                 ELSE [app EXCEPT !.pc = "rollbackLoop", !.err = err,
                                  !.k = Len(app.started)]
    /\ UNCHANGED <<lib, roots, result, methods, gs, user, lazy>>

\* One pass of the loop over app.started: a service that is no Closer is
\* skipped, a Closer's Close goes to withTimeout; past the first element
\* Start returns the error of the failed Start (app.go:286-294).
RollbackNext ==
    /\ app.pc = "rollbackLoop"
    /\ IF app.k >= 1
       THEN IF "Close" \in methods[app.started[app.k].typ]
            THEN /\ gs' = Append(gs, spawn("Close", app.started[app.k]))
                 /\ app' = [app EXCEPT !.pc = "rollbackSelect", !.cur = Len(gs) + 1]
            ELSE /\ app' = [app EXCEPT !.k = @ - 1]
                 /\ gs' = gs
       ELSE /\ app' = [app EXCEPT !.pc = "startDone", !.startRet = app.err]
            /\ gs' = gs
    /\ UNCHANGED <<lib, roots, result, methods, user, lazy>>

\* withTimeout returns in the loop over app.started: what it returns is
\* dropped (app.go:292).
RollbackSelect ==
    /\ app.pc = "rollbackSelect"
    /\ \E closeErr \in selected :
          app' = [app EXCEPT !.pc = "rollbackLoop", !.k = @ - 1]
    /\ UNCHANGED <<lib, roots, result, methods, gs, user, lazy>>

NextRollback ==
    \/ CallInitModules \/ CallInitProviders \/ CallInitInstances
    \/ NewApp \/ CallStart \/ Expire \/ GoReturn
    \/ StartNext \/ RollbackStartSelect \/ RollbackNext \/ RollbackSelect

SpecRollback == InitRollback /\ [][NextRollback]_vars

-----------------------------------------------------------------------------
(* The program reads the context: Context.Get and Context.Inject.           *)

MaxFields == 2

\* The types of the variables and fields the program reads instances into.
FieldTypes == Types \cup ValueTypes

\* The structs the program passes to Inject: up to MaxFields fields, each of
\* any type, exported or not, holding its zero value.
Structs ==
    UNION {[1..k -> {Field(t, e, Zero(t)) : t \in FieldTypes, e \in BOOLEAN}]
              : k \in 0..MaxFields}

InitUse ==
    /\ lib = Program(BaseImports, BaseAdds)
    /\ roots \in RootSeqs(AllRoots)
    /\ result = NoOutcome
    /\ methods = [t \in Types \cup ValueTypes |-> {}]
    /\ app = NoApp
    /\ gs = <<>>
    /\ user = NoCall
    /\ lazy = NoLazy

\* The program calls ctx.Get(&v) on the context NewContext returned, v being
\* a variable of some type that holds its zero value.
CallGet ==
    /\ result.kind = "ok"
    /\ user.op = "none"
    /\ \E t \in FieldTypes :
          LET g == Get(result.ctx, Var(t, Zero(t))) IN
          /\ user' = UserCall("Get", Var(t, Zero(t)), g.dst, g.ret, "")
          /\ result' = [result EXCEPT !.ctx = g.ctx]
    /\ UNCHANGED <<lib, roots, methods, app, gs, lazy>>

\* The program calls ctx.Inject(&s) on the context NewContext returned.
CallInject ==
    /\ result.kind = "ok"
    /\ user.op = "none"
    /\ \E s \in Structs :
          LET j == Inject(result.ctx, s) IN
          /\ user' = UserCall("Inject", s, j.dst, FALSE, j.panic)
          /\ result' = [result EXCEPT !.ctx = j.ctx]
    /\ UNCHANGED <<lib, roots, methods, app, gs, lazy>>

NextUse ==
    \/ CallInitModules \/ CallInitProviders \/ CallInitInstances
    \/ CallGet \/ CallInject

SpecUse == InitUse /\ [][NextUse]_vars

-----------------------------------------------------------------------------
(* The program uses the context of an App while the App runs.               *)

\* The base program, X being the one service, with Start and Stop.
InitFrame ==
    /\ lib = Program(BaseImports, BaseAdds)
    /\ roots = BaseRoots
    /\ result = NoOutcome
    /\ methods = [X |-> {"Start", "Stop"}, Y |-> {}, Z |-> {}, S |-> {}]
    /\ app = NoApp
    /\ gs = <<>>
    /\ user = NoCall
    /\ lazy = NoLazy

\* The program can call a method on app.Context.
HasContext == app.pc \notin {"new", "failed"} /\ user.op = "none"

\* The program calls app.Context.Get(&v).
AppGet ==
    /\ HasContext
    /\ \E t \in FieldTypes :
          LET g == Get(app.Context, Var(t, Zero(t))) IN
          /\ user' = UserCall("Get", Var(t, Zero(t)), g.dst, g.ret, "")
          /\ app' = [app EXCEPT !.Context = g.ctx]
    /\ UNCHANGED <<lib, roots, result, methods, gs, lazy>>

\* The program calls app.Context.MustGet(&v).
AppMustGet ==
    /\ HasContext
    /\ \E t \in FieldTypes :
          LET g == MustGet(app.Context, Var(t, Zero(t))) IN
          /\ user' = UserCall("MustGet", Var(t, Zero(t)), g.dst, FALSE, g.panic)
          /\ app' = [app EXCEPT !.Context = g.ctx]
    /\ UNCHANGED <<lib, roots, result, methods, gs, lazy>>

\* The program calls app.Context.Inject(&s).
AppInject ==
    /\ HasContext
    /\ \E s \in Structs :
          LET j == Inject(app.Context, s) IN
          /\ user' = UserCall("Inject", s, j.dst, FALSE, j.panic)
          /\ app' = [app EXCEPT !.Context = j.ctx]
    /\ UNCHANGED <<lib, roots, result, methods, gs, lazy>>

NextFrame ==
    \/ CallInitModules \/ CallInitProviders \/ CallInitInstances
    \/ NewApp \/ CallApp \/ Expire \/ GoReturn
    \/ StartNext \/ StartSelect \/ RunStop \/ StopNext \/ StopSelect
    \/ AppGet \/ AppMustGet \/ AppInject

SpecFrame == InitFrame /\ [][NextFrame]_vars

-----------------------------------------------------------------------------
(* The construction of a Package (package.go).                              *)

\* NewPackage up to the return of initModules (package.go:15-24).
NewPackageModules(moduleFuncs) ==
    LET mods == [i \in DOMAIN moduleFuncs |-> rootFunc(moduleFuncs[i])]
        s == pkgInitModules([Modules |-> EmptyMap, err |-> NoErr, panic |-> ""], mods)
        p == [newPackage EXCEPT !.Modules = s.Modules]
    IN IF s.panic # ""
       THEN Outcome("panic", NilCtx, Err(s.panic, "", <<>>), p, <<>>, <<>>, <<>>)
       ELSE IF s.err # NoErr
       THEN Outcome("error", NilCtx, s.err, p, <<>>, <<>>, <<>>)
       ELSE Outcome("pkgModules", NilCtx, NoErr, p, <<>>, <<>>, <<>>)

\* initConstructors up to the end of its first loop (package.go:74-86).
NewPackageConstructors(r, modOrder) ==
    LET s == addConstructors([Constructors |-> EmptyMap, err |-> NoErr],
                             constructorsIn(r.built.Modules, modOrder))
        p == [r.built EXCEPT !.Constructors = s.Constructors]
    IN IF s.err # NoErr
       THEN Outcome("error", NilCtx, s.err, p, <<>>, <<>>, modOrder)
       ELSE Outcome("pkgConstructors", NilCtx, NoErr, p, <<>>, <<>>, modOrder)

\* initConstructors from its second loop on, and the return of NewPackage
\* (package.go:88-127, 25-27).
NewPackageChecked(r, modOrder) ==
    LET err == checkModules(r.built.Modules, r.built.Constructors, modOrder)
    IN IF err # NoErr
       THEN Outcome("error", NilCtx, err, r.built, <<>>, <<>>, modOrder)
       ELSE Outcome("ok", r.built, NoErr, r.built, <<>>, <<>>, modOrder)

\* The programs and arguments NewPackage is called with: module functions
\* only.
InitPackage ==
    /\ \/ \E i \in Bodies(Names, ImportCalls, MaxImports) :
             lib = Program(i, BaseAdds) /\ roots \in RootSeqs(ModRoots)
       \/ \E a \in Bodies(Names, AddCalls, MaxAdds) :
             lib = Program(BaseImports, a) /\ roots = BaseRoots
    /\ result = NoOutcome
    /\ methods = [t \in Types \cup ValueTypes |-> {}]
    /\ app = NoApp
    /\ gs = <<>>
    /\ user = NoCall
    /\ lazy = NoLazy

\* NewPackage(roots...) runs initModules.
CallPackageModules ==
    /\ result.kind = "none"
    /\ result' = NewPackageModules(roots)
    /\ UNCHANGED <<lib, roots, methods, app, gs, user, lazy>>

\* initConstructors adds the constructors, Go ranging over p.Modules in some
\* order.
CallPackageConstructors ==
    /\ result.kind = "pkgModules"
    /\ \E modOrder \in Orders(DOMAIN result.built.Modules) :
          result' = NewPackageConstructors(result, modOrder)
    /\ UNCHANGED <<lib, roots, methods, app, gs, user, lazy>>

\* initConstructors checks the dependencies, Go ranging over p.Modules in some
\* order, and NewPackage returns.
CallPackageChecked ==
    /\ result.kind = "pkgConstructors"
    /\ \E modOrder \in Orders(DOMAIN result.built.Modules) :
          result' = NewPackageChecked(result, modOrder)
    /\ UNCHANGED <<lib, roots, methods, app, gs, user, lazy>>

NextPackage == CallPackageModules \/ CallPackageConstructors \/ CallPackageChecked

SpecPackage == InitPackage /\ [][NextPackage]_vars

-----------------------------------------------------------------------------
(* Programs on the lazily constructing Context (unnamed/part_001).          *)

\* The bodies of the module functions: those of the base program, each with
\* or without a Depend on X.
LazyAdds ==
    {[n \in Names |-> IF n \in D THEN BaseAdds[n] \o <<Call("Dep", "X")>> ELSE BaseAdds[n]]
        : D \in SUBSET Names}

\* The structs a goroutine passes to ctx.Fill: up to MaxFields exported
\* fields of the provided types, each holding its zero value.
FillStructs ==
    UNION {[1..k -> {Field(t, TRUE, Zero(t)) : t \in Types}] : k \in 0..MaxFields}

InitLazy ==
    /\ \E a \in LazyAdds : lib = Program(BaseImports, a)
    /\ roots \in RootSeqs(ModRoots)
    /\ result = NoOutcome
    /\ methods = [t \in Types \cup ValueTypes |-> {}]
    /\ app = NoApp
    /\ gs = <<>>
    /\ user = NoCall
    /\ lazy = NoLazy

\* The module functions passed to NewContext or Fill.
lazyFuncs == [i \in DOMAIN roots |-> rootFunc(roots[i])]

\* The program calls Fill(&s, modules...).
CallFill ==
    /\ result.kind = "none"
    /\ \E nameOrder \in Orders(Names), typeOrder \in Orders(Types) :
          /\ result' = LazyNewContext(lazyFuncs, nameOrder, typeOrder)
          /\ \E s \in Structs :
                LET f == Fill(s, result') IN
                user' = UserCall("Fill", s, f.dst, f.ret, f.panic)
    /\ UNCHANGED <<lib, roots, methods, app, gs, lazy>>

\* The program calls NewContext(modules...) and keeps the context.
CallLazyNewContext ==
    /\ result.kind = "none"
    /\ \E nameOrder \in Orders(Names), typeOrder \in Orders(Types) :
          result' = LazyNewContext(lazyFuncs, nameOrder, typeOrder)
    /\ UNCHANGED <<lib, roots, methods, app, gs, user, lazy>>

\* The program still runs on a context it holds.
Shared == result.kind = "ok" /\ user.op = "none" /\ ~lazy.fatal

\* A goroutine calls ctx.Get(v), v of type t, which calls GetByType.
GoGet ==
    /\ Shared
    /\ lazy.get.pc = "idle"
    /\ \E t \in Types : lazy' = [lazy EXCEPT !.get.pc = "lock", !.get.typ = t]
    /\ UNCHANGED <<lib, roots, result, methods, app, gs, user>>

\* ctx.mu.Lock() returns and getOrInit runs up to its first store into
\* ctx.Instances, or to its return (part_001:177-196).
GetLock ==
    /\ Shared
    /\ lazy.get.pc = "lock"
    /\ lazy.mu = ""
    /\ \E failing \in SUBSET Failable :
          LET st == getOrInit([Instances |-> result.ctx.Instances, ret |-> Zero(""),
                               err |-> NoErr, overflow |-> FALSE, made |-> <<>>],
                              result.ctx.Providers, failing, lazy.get.typ, {})
          IN lazy' = [lazy EXCEPT
                 !.mu = "GetByType",
                 !.log = @ \cup {Access("GetByType", "read", TRUE, FALSE)},
                 !.get.made = st.made,
                 !.get.ret = st.ret,
                 !.get.err = st.err,
                 !.get.pc = IF st.overflow THEN "overflow"
                            ELSE IF st.made = <<>> THEN "unlock" ELSE "write"]
    /\ UNCHANGED <<lib, roots, result, methods, app, gs, user>>

\* The store ctx.Instances[type0] = instance of getOrInit (part_001:197).
GetStore ==
    /\ Shared
    /\ lazy.get.pc = "write"
    /\ LET instance == lazy.get.made[lazy.get.k + 1] IN
       /\ result' = [result EXCEPT !.ctx.Instances = Put(@, instance.typ, instance)]
       /\ lazy' = [lazy EXCEPT
              !.log = @ \cup {Access("GetByType", "write", lazy.mu = "GetByType", FALSE)},
              !.get.k = @ + 1,
              !.get.pc = IF lazy.get.k + 1 = Len(lazy.get.made) THEN "unlock" ELSE "write"]
    /\ UNCHANGED <<lib, roots, methods, app, gs, user>>

\* The deferred ctx.mu.Unlock() and the return of GetByType.
GetUnlock ==
    /\ Shared
    /\ lazy.get.pc = "unlock"
    /\ lazy' = [lazy EXCEPT !.mu = "", !.get.pc = "done"]
    /\ UNCHANGED <<lib, roots, result, methods, app, gs, user>>

\* A goroutine calls ctx.Fill(&s).
GoFill ==
    /\ Shared
    /\ lazy.fill.pc = "idle"
    /\ \E s \in FillStructs :
          lazy' = [lazy EXCEPT !.fill.old = s, !.fill.dst = s, !.fill.i = 1,
                               !.fill.pc = IF s = <<>> THEN "done" ELSE "lookup"]
    /\ UNCHANGED <<lib, roots, result, methods, app, gs, user>>

\* The position of Fill after field i.
fillNext(s, i) == IF i >= Len(s) THEN "done" ELSE "lookup"

\* The lookup ctx.Instances[ftype] of Fill (part_001:208). While another
\* goroutine is at its store into the map the lookup is a data race: it sees
\* the map before the store or after it, or the runtime ends the program.
FillLookup ==
    /\ Shared
    /\ lazy.fill.pc = "lookup"
    /\ LET racing == lazy.get.pc = "write"
           field  == lazy.fill.dst[lazy.fill.i]
           now    == result.ctx.Instances
           next   == lazy.get.made[lazy.get.k + 1]
           logged == [lazy EXCEPT
                        !.log = @ \cup {Access("Fill", "read", lazy.mu = "Fill", racing)}]
           seen(Instances) ==
               LET l == fillLookup(Instances, field) IN
               IF l.ok THEN [logged EXCEPT !.fill.found = l.instance, !.fill.pc = "set"]
               ELSE [logged EXCEPT !.fill.i = @ + 1,
                                   !.fill.pc = fillNext(lazy.fill.dst, lazy.fill.i)]
       IN \/ lazy' = seen(now)
          \/ racing /\ lazy' = seen(Put(now, next.typ, next))
          \/ racing /\ lazy' = [logged EXCEPT !.fatal = TRUE]
    /\ UNCHANGED <<lib, roots, result, methods, app, gs, user>>

\* The field.Set of Fill (part_001:213).
FillSet ==
    /\ Shared
    /\ lazy.fill.pc = "set"
    /\ LET f == fillSet(lazy.fill.dst, lazy.fill.i, lazy.fill.found) IN
       lazy' = [lazy EXCEPT
              !.fill.dst = f.dst,
              !.fill.i = @ + 1,
              !.fill.pc = IF f.panic # "" THEN "panic"
                          ELSE fillNext(lazy.fill.dst, lazy.fill.i)]
    /\ UNCHANGED <<lib, roots, result, methods, app, gs, user>>

NextLazy ==
    \/ CallFill \/ CallLazyNewContext
    \/ GoGet \/ GetLock \/ GetStore \/ GetUnlock
    \/ GoFill \/ FillLookup \/ FillSet

SpecLazy == InitLazy /\ [][NextLazy]_vars

-----------------------------------------------------------------------------
(* Properties of NewContext.                                                *)

\* The module functions among the arguments of NewContext.
rootNames == {roots[i].arg : i \in {j \in DOMAIN roots : roots[j].kind = "mod"}}

\* The modules a module function imports.
importsOf(n) == {c.arg : c \in {d \in Range(lib[n]) : d.op = "Import"}}

\* The modules reachable from the modules S through imports, S included.
RECURSIVE Reach(_)
Reach(S) ==
    LET T == S \cup UNION {importsOf(n) : n \in S}
    IN IF T = S THEN S ELSE Reach(T)

\* Some module reachable from the roots imports itself, directly or through
\* other modules.
CycleReachable == \E n \in Reach(rootNames) : n \in Reach(importsOf(n))

\* C1: whenever the modules reachable from the roots through imports contain
\* an import cycle, NewContext returns a cyclic-import error and no context,
\* in whatever order the roots are passed (where no module function panics:
\* a panic at module-definition time ends NewContext before it returns).
C1_CyclicImportFails ==
    (result.kind \notin {"none", "panic"} /\ CycleReachable)
        => /\ result.kind = "error"
           /\ result.err.kind = "cyclic import"
           /\ result.ctx = NilCtx

\* C1's case: two roots, the first outside the cycle of two modules that
\* NewContext reports.
C1_Witness ==
    /\ result.kind = "error"
    /\ result.err.kind = "cyclic import"
    /\ Len(result.err.path) = 3
    /\ Len(roots) = 2
    /\ roots[1].arg \notin Range(result.err.path)
    /\ CycleReachable

\* Two of the providers the modules ms declare have one output type.
SharedType(ms) ==
    \E n1 \in DOMAIN ms, n2 \in DOMAIN ms :
    \E i1 \in DOMAIN ms[n1].Providers, i2 \in DOMAIN ms[n2].Providers :
        /\ <<n1, i1>> # <<n2, i2>>
        /\ ms[n1].Providers[i1].Type = ms[n2].Providers[i2].Type

\* The type a call of Add or AddInstance registers; "" for other calls.
addedType(c) ==
    IF c.op = "Add" THEN Factories[c.arg].Type
    ELSE IF c.op = "AddInstance" THEN c.arg ELSE ""

\* The body of module function n registers one type twice.
AddsTwice(n) ==
    \E i \in DOMAIN lib[n], j \in DOMAIN lib[n] :
        i < j /\ addedType(lib[n][i]) # "" /\ addedType(lib[n][i]) = addedType(lib[n][j])

\* C2: NewContext never returns a context in which two providers of the
\* resolved modules have the same output type: a module function that adds a
\* type twice panics, and two providers of one type in different resolved
\* modules make NewContext return a duplicate-provider error.
C2_NoDuplicateProviders ==
    /\ result.kind = "ok" => ~SharedType(result.ctx.Modules)
    /\ (/\ result.kind \in {"providers", "ok", "error", "overflow"}
        /\ result.err.kind # "cyclic import"
        /\ SharedType(result.built.Modules))
          => /\ result.kind = "error"
             /\ result.err.kind = "duplicate provider"
             /\ result.ctx = NilCtx
    /\ \A n \in Range(result.inits) \cap Names : AddsTwice(n) => result.kind = "panic"

\* C2's case: two resolved modules provide one type and NewContext has
\* returned the duplicate-provider error that names both.
C2_Witness ==
    /\ result.kind = "error"
    /\ result.err.kind = "duplicate provider"
    /\ result.err.path[1] # result.err.path[2]
    /\ SharedType(result.built.Modules)

\* The dependency types of the providers of the modules ms for which none of
\* the modules has a provider.
MissingDeps(ms) ==
    {d \in Types :
        /\ \E n \in DOMAIN ms : \E i \in DOMAIN ms[n].Providers :
              d \in Range(ms[n].Providers[i].Deps)
        /\ ~\E n \in DOMAIN ms : \E i \in DOMAIN ms[n].Providers :
              ms[n].Providers[i].Type = d}

\* NewContext has ended after initModules and initProviders returned nil.
PastValidation ==
    \/ result.kind \in {"ok", "overflow"}
    \/ result.kind = "error" /\ result.err.kind \notin {"cyclic import", "duplicate provider"}

\* C3: when a provider of a resolved module depends on a type that no resolved
\* module provides, NewContext fails with the unresolved-provider-dependency
\* error of the validation phase, naming the missing type.
C3_UnresolvedDependencyError ==
    (PastValidation /\ MissingDeps(result.built.Modules) # {})
        => /\ result.kind = "error"
           /\ result.err.kind = "unresolved provider dependency"
           /\ result.err.typ \in MissingDeps(result.built.Modules)

\* C4: when a provider function invoked during NewContext returns a non-nil
\* error, NewContext returns that very error and a nil context.
C4_FactoryErrorReturned ==
    \A i \in DOMAIN result.calls :
        result.calls[i].err # NoErr
            => /\ result.kind = "error"
               /\ result.err = result.calls[i].err
               /\ result.ctx = NilCtx

\* C4's case: a provider function failed after another had built its instance.
C4_Witness ==
    /\ Len(result.calls) >= 2
    /\ result.calls[Len(result.calls)].err # NoErr
    /\ result.calls[1].err = NoErr

\* v comes before w in the sequence s.
Before(s, v, w) == \E i \in DOMAIN s, j \in DOMAIN s : i < j /\ s[i] = v /\ s[j] = w

\* C5: after a successful NewContext, for every provider P and every type D of
\* P.Deps the instance of D is in InstanceSlice before the instance of P.Type.
C5_DependenciesFirst ==
    result.kind = "ok" =>
        \A t \in DOMAIN result.ctx.Providers :
        \A d \in Range(result.ctx.Providers[t].Deps) :
            /\ d \in DOMAIN result.ctx.Instances
            /\ Before(result.ctx.InstanceSlice, result.ctx.Instances[d],
                      result.ctx.Instances[t])

\* C5's case: three instances, built when Go ranged over the provider of Z,
\* which depends on both others, first.
C5_Witness ==
    /\ result.kind = "ok"
    /\ Len(result.ctx.InstanceSlice) = 3
    /\ result.order[1] = "Z"
    /\ result.ctx.Providers["Z"].Deps = <<"X", "Y">>

\* C6: during one NewContext each provider function is invoked at most once,
\* exactly once when NewContext succeeds, and gets as arguments the very
\* values stored in Context.Instances for its dependency types.
C6_InvokedOnce ==
    /\ \A i \in DOMAIN result.calls, j \in DOMAIN result.calls :
          i # j => /\ result.calls[i].typ # result.calls[j].typ
                   /\ result.calls[i].prov # result.calls[j].prov
    /\ \A i \in DOMAIN result.calls :
       \A k \in DOMAIN result.calls[i].args :
          \E j \in 1..(i - 1) :
             /\ result.calls[j].typ = result.built.Providers[result.calls[i].typ].Deps[k]
             /\ result.calls[j].instance = result.calls[i].args[k]
    /\ result.kind = "ok" =>
          /\ \A t \in DOMAIN result.ctx.Providers :
                \E i \in DOMAIN result.calls :
                   /\ result.calls[i].typ = t
                   /\ result.calls[i].prov = result.ctx.Providers[t].Name
                   /\ result.calls[i].instance = result.ctx.Instances[t]
          /\ \A i \in DOMAIN result.calls :
                LET p == result.ctx.Providers[result.calls[i].typ] IN
                /\ Len(result.calls[i].args) = Len(p.Deps)
                /\ \A k \in DOMAIN p.Deps :
                      result.calls[i].args[k] = result.ctx.Instances[p.Deps[k]]

\* C6's case: X was asked for on two dependency paths, by newZ and by newY.
C6_Witness ==
    /\ result.kind = "ok"
    /\ \E i \in DOMAIN result.calls : result.calls[i].prov = "newZ"
    /\ \E i \in DOMAIN result.calls : result.calls[i].prov = "newY"
    /\ \E i \in DOMAIN result.calls : result.calls[i].prov = "newX"

-----------------------------------------------------------------------------
(* Properties of the App. A method of a service is invoked when withTimeout  *)
(* launches the goroutine that calls it, and has returned when that         *)
(* goroutine has sent its result.                                           *)

\* The types the provider of type t depends on, directly and transitively.
DepsOf(t) == Range(app.Context.Providers[t].Deps)

RECURSIVE DepClosure(_)
DepClosure(S) ==
    LET T == S \cup UNION {DepsOf(t) : t \in S}
    IN IF T = S THEN S ELSE DepClosure(T)

DependsOn(y, x) == x \in DepClosure(DepsOf(y))

\* The goroutines launched for the method op, in the order of their launch.
Launched(op) == SelectSeq(gs, LAMBDA g : g.op = op)

\* The types of a sequence of services or goroutines.
TypesOf(s) == [i \in DOMAIN s |-> IF "svc" \in DOMAIN s[i] THEN s[i].svc ELSE s[i].typ]

\* C7: whenever App.Start invokes Start on a Starter Y, the Start of every
\* Starter X that Y depends on, directly or transitively, was invoked earlier
\* and has returned nil.
C7_StartDependenciesFirst ==
    \A j \in DOMAIN gs :
        gs[j].op = "Start" =>
            \A x \in DepClosure(DepsOf(gs[j].svc)) :
                "Start" \in methods[x] =>
                    \E i \in 1..(j - 1) :
                        /\ gs[i].op = "Start"
                        /\ gs[i].svc = x
                        /\ gs[i].st = "sent"
                        /\ gs[i].res = NoErr

\* C7's case: X, Y and Z are Starters and the Start of Z, which depends on
\* both others, has been invoked.
C7_Witness ==
    /\ Len(gs) >= 3
    /\ TypesOf(Launched("Start")) = <<"X", "Y", "Z">>

\* C8: for every two Stoppers where Y depends, directly or transitively, on X,
\* App.Stop invokes the Stop of Y before the Stop of X.
C8_StopReverseOrder ==
    \A i \in DOMAIN gs, j \in DOMAIN gs :
        (/\ gs[i].op = "Stop"
         /\ gs[j].op = "Stop"
         /\ DependsOn(gs[j].svc, gs[i].svc)) => j < i

\* The Start that keeps app.started has failed: withTimeout returned an error
\* for the Start of app.services[app.i], the Starters before it being those
\* whose Start has returned nil.
StartFailed ==
    /\ app.pc \in {"rollbackLoop", "rollbackSelect", "startDone"}
    /\ app.i <= Len(app.services)

Succeeded == SubSeq(app.services, 1, app.i - 1)

\* s is the first part of t.
IsPrefix(s, t) == Len(s) <= Len(t) /\ s = SubSeq(t, 1, Len(s))

RECURSIVE Reverse(_)
Reverse(s) == IF s = <<>> THEN <<>> ELSE Append(Reverse(Tail(s)), Head(s))

\* The types that have the method op among the types s.
Having(s, op) == SelectSeq(s, LAMBDA t : op \in methods[t])

\* C9: in the Start that keeps app.started, when the Start of the k-th Starter
\* fails or times out, no later Starter is started; Close is invoked on the
\* Closers among the first k - 1 Starters, whose Start had returned nil, once
\* each and from the last started to the first, and on no other service; and
\* Start returns what withTimeout returned for the k-th Start (the error of
\* that Start, or the context's error when it timed out), whatever the Close
\* calls return.
C9_RollbackOnFailedStart ==
    /\ Launched("Close") # <<>> => StartFailed
    /\ StartFailed =>
          /\ TypesOf(Launched("Start")) = TypesOf(SubSeq(app.services, 1, app.i))
          /\ \A i \in 1..(app.i - 1) :
                Launched("Start")[i].st = "sent" /\ Launched("Start")[i].res = NoErr
          /\ IsPrefix(TypesOf(Launched("Close")),
                      Having(Reverse(TypesOf(Succeeded)), "Close"))
          /\ app.pc = "startDone" =>
                /\ TypesOf(Launched("Close")) = Having(Reverse(TypesOf(Succeeded)), "Close")
                /\ app.startRet # NoErr
                /\ \/ app.startRet = ErrDeadline /\ app.done
                   \/ /\ app.startRet = ServiceErr("Start", app.services[app.i].typ)
                      /\ Launched("Start")[app.i].st = "sent"
                      /\ Launched("Start")[app.i].res = app.startRet

\* C9's case: the Start of Z, the third Starter, has failed, Close has been
\* invoked on Y and then on X, the Close of Y has returned an error, and Start
\* has returned.
C9_Witness ==
    /\ app.pc = "startDone"
    /\ app.startRet = ServiceErr("Start", "Z")
    /\ Len(gs) = 5
    /\ gs[4] = [op |-> "Close", svc |-> "Y", st |-> "sent", res |-> ServiceErr("Close", "Y")]
    /\ gs[5].svc = "X"

\* The start phase of App.Run has failed: runStart has returned an error, that
\* of the Start invoked last; the Start of the services invoked before it had
\* returned nil.
RunStartFailed == app.entry = "Run" /\ app.startRet # NoErr

StartedBefore ==
    TypesOf(SubSeq(Launched("Start"), 1, Len(Launched("Start")) - 1))

\* C10: when the start phase of App.Run has failed at a service Y, Stop is
\* invoked at most once on every service, once Run has returned exactly once
\* on every Stopper whose Start had returned nil, and never on a Starter after
\* Y in the order, whose Start was never invoked.
C10_StopOnlyStarted ==
    RunStartFailed =>
        /\ \A i \in DOMAIN gs, j \in DOMAIN gs :
              (gs[i].op = "Stop" /\ gs[j].op = "Stop" /\ i # j) => gs[i].svc # gs[j].svc
        /\ \A j \in DOMAIN gs :
              (gs[j].op = "Stop" /\ "Start" \in methods[gs[j].svc]) =>
                  \E i \in DOMAIN gs : gs[i].op = "Start" /\ gs[i].svc = gs[j].svc
        /\ app.pc = "stopDone" =>
              \A t \in Range(Having(StartedBefore, "Stop")) :
                  \E j \in DOMAIN gs : gs[j].op = "Stop" /\ gs[j].svc = t

-----------------------------------------------------------------------------
(* Further properties of NewContext.                                        *)

\* How many times v occurs in the sequence s.
Count(s, v) == Cardinality({i \in DOMAIN s : s[i] = v})

RECURSIVE SumLen(_, _)
SumLen(Modules, S) ==
    IF S = {} THEN 0
    ELSE LET n == CHOOSE x \in S : TRUE
         IN Len(Modules[n].Providers) + SumLen(Modules, S \ {n})

\* C11: after a successful NewContext the function of every module reachable
\* from the root module functions through imports has been invoked exactly
\* once, the module is in Context.Modules under its name, and Context.Providers
\* holds each provider of each module under its type, with no other entry.
C11_ModulesOnce ==
    result.kind = "ok" =>
        /\ \A n \in Reach(rootNames) :
              /\ Count(result.inits, n) = 1
              /\ n \in DOMAIN result.ctx.Modules
              /\ result.ctx.Modules[n] = newModule(importFunc(n))
              /\ \A p \in Range(result.ctx.Modules[n].Providers) :
                    /\ p.Type \in DOMAIN result.ctx.Providers
                    /\ result.ctx.Providers[p.Type] = p
        /\ Cardinality(DOMAIN result.ctx.Providers)
              = SumLen(result.ctx.Modules, DOMAIN result.ctx.Modules)

\* C11's case: NewContext has succeeded on a program where two modules import
\* the same third module, which has a provider.
C11_Witness ==
    /\ result.kind = "ok"
    /\ \E n \in Reach(rootNames), a \in Reach(rootNames), b \in Reach(rootNames) :
          /\ a # b /\ a # n /\ b # n
          /\ n \in importsOf(a) /\ n \in importsOf(b)
          /\ result.ctx.Modules[n].Providers # <<>>

-----------------------------------------------------------------------------
(* Properties of Context.Get and Context.Inject. result.built is the        *)
(* context as NewContext returned it, result.ctx the context after the call. *)

\* C12: Get returns true exactly when Context.Instances has an entry for the
\* type of the destination; then the destination holds that instance, and
\* otherwise it holds what it held before; the context, with its instances,
\* is after the call what it was before.
C12_GetReturnsStored ==
    user.op = "Get" =>
        /\ user.ret <=> user.old.typ \in DOMAIN result.built.Instances
        /\ user.ret => user.dst = Var(user.old.typ, result.built.Instances[user.old.typ])
        /\ ~user.ret => user.dst = user.old
        /\ user.panic = ""
        /\ result.ctx = result.built

\* C12's case: Get has found an instance that a provider function made, and
\* stored it in place of the destination's zero value.
C12_Witness ==
    /\ user.op = "Get"
    /\ user.ret
    /\ user.dst.val # user.old.val
    /\ user.dst.val \in {result.calls[i].instance : i \in DOMAIN result.calls}
    /\ Len(result.calls) >= 2

\* C13: Inject returns normally, and after it every field of the struct whose
\* type has an instance in the context holds that instance and every other
\* field holds what it held before.
C13_InjectFillsFields ==
    user.op = "Inject" =>
        /\ user.panic = ""
        /\ DOMAIN user.dst = DOMAIN user.old
        /\ \A i \in DOMAIN user.old :
              IF user.old[i].typ \in DOMAIN result.built.Instances
              THEN user.dst[i] = [user.old[i] EXCEPT
                                    !.val = result.built.Instances[user.old[i].typ]]
              ELSE user.dst[i] = user.old[i]

\* C20: when a provider function with the results (instance, error) has
\* returned a nil error, NewContext succeeds and the context holds the
\* function's first result as the instance of its type, for Get to return.
C20_NilErrorYieldsInstance ==
    \A i \in DOMAIN result.calls :
        (/\ result.calls[i].prov \in DOMAIN Factories
         /\ Factories[result.calls[i].prov].NumOut = 2
         /\ result.calls[i].err = NoErr)
            => /\ result.kind = "ok"
               /\ result.calls[i].typ \in DOMAIN result.ctx.Instances
               /\ result.ctx.Instances[result.calls[i].typ] = result.calls[i].instance

-----------------------------------------------------------------------------
(* Properties of NewPackage. result.built is the Package.                   *)

RECURSIVE importClosure(_, _)
importClosure(Modules, S) ==
    LET T == S \cup UNION {Range(Modules[n].Imports) : n \in S}
    IN IF T = S THEN S ELSE importClosure(Modules, T)

\* The modules that module n imports, directly or through other modules.
ImportedBy(n) == importClosure(result.built.Modules, Range(result.built.Modules[n].Imports))

\* The types the constructors of the modules S make.
MadeBy(S) == UNION {{c.Type : c \in Range(result.built.Modules[n].Constructors)} : n \in S}

\* NewPackage has returned, the modules resolved and their constructors
\* registered without an error.
PackageChecked ==
    /\ result.kind \in {"ok", "error"}
    /\ result.kind = "error" =>
          result.err.kind \in {"Unresolved dependency", "Unresolved package-level dependency"}

\* Constructor c of module n needs type d, which only modules that n does not
\* import, directly or through others, provide.
NeedsFromSibling(n, c, d) ==
    /\ d \in Range(c.Deps)
    /\ d \in DOMAIN result.built.Constructors
    /\ d \notin MadeBy({n} \cup ImportedBy(n))

\* C14: when a constructor of module M depends on a type that only resolved
\* modules M does not import (directly or transitively) provide, NewPackage
\* does not report that dependency as unresolved if M marked the type as a
\* package-level dependency, and if M did not it returns an error, that of an
\* unresolved dependency, the first one its check meets.
C14_PackageDepEscapeHatch ==
    PackageChecked =>
        \A n \in DOMAIN result.built.Modules :
        \A c \in Range(result.built.Modules[n].Constructors) :
        \A d \in Types :
            NeedsFromSibling(n, c, d) =>
                IF d \in Range(result.built.Modules[n].PackageDeps)
                THEN result.err # Err("Unresolved dependency", d, <<c.Name, n>>)
                ELSE result.kind = "error"

\* C14's case: NewPackage has accepted a program where a constructor needs a
\* type from a module its own module does not import but has marked.
C14_Witness ==
    /\ result.kind = "ok"
    /\ \E n \in DOMAIN result.built.Modules :
       \E c \in Range(result.built.Modules[n].Constructors) :
       \E d \in Types :
          /\ NeedsFromSibling(n, c, d)
          /\ d \in Range(result.built.Modules[n].PackageDeps)

\* C16: NewPackage does not report as unresolved the dependency of a
\* constructor on a type that a module imported by its module through other
\* modules provides.
C16_TransitiveImportAccepted ==
    PackageChecked =>
        \A n \in DOMAIN result.built.Modules :
        \A c \in Range(result.built.Modules[n].Constructors) :
        \A d \in Range(c.Deps) :
            d \in MadeBy(ImportedBy(n)) =>
                result.err # Err("Unresolved dependency", d, <<c.Name, n>>)

-----------------------------------------------------------------------------
(* Properties of the dependency check of NewContext.                        *)

\* The types the providers of the modules S of the context make.
ProvidedBy(S) == UNION {{p.Type : p \in Range(result.built.Modules[n].Providers)} : n \in S}

\* A provider of module n depends on type d, which only modules that n does
\* not import, directly or through others, provide, and n has not declared d
\* with Dep.
UndeclaredSiblingDep(n, d) ==
    /\ \E p \in Range(result.built.Modules[n].Providers) : d \in Range(p.Deps)
    /\ d \in DOMAIN result.built.Providers
    /\ d \notin ProvidedBy({n} \cup importClosure(result.built.Modules,
                                                  Range(result.built.Modules[n].Imports)))
    /\ d \notin Range(result.built.Modules[n].Deps)

\* C15: when a provider of a resolved module M depends on a type that only
\* resolved modules M does not import provide, and M has not declared the type
\* with Dep, NewContext returns an error and no context.
C15_ImportGraphResolution ==
    (/\ PastValidation
     /\ \E n \in DOMAIN result.built.Modules, d \in Types : UndeclaredSiblingDep(n, d))
        => result.kind = "error"

\* Module n has declared with Dep a type d that no resolved module provides.
UnprovidedDep(n, d) ==
    /\ d \in Range(result.built.Modules[n].Deps)
    /\ d \notin ProvidedBy(DOMAIN result.built.Modules)

\* C17: when a resolved module has declared with Dep a type that no resolved
\* module provides, NewContext returns an error that names such a type and
\* its module, whether or not a provider function takes the type.
C17_UnprovidedExplicitDep ==
    (/\ PastValidation
     /\ \E n \in DOMAIN result.built.Modules, d \in Types : UnprovidedDep(n, d))
        => /\ result.kind = "error"
           /\ \E n \in DOMAIN result.built.Modules :
                 /\ UnprovidedDep(n, result.err.typ)
                 /\ n \in Range(result.err.path)

-----------------------------------------------------------------------------
(* Properties of App.Stop.                                                  *)

\* The types of the instances of the context that have the method Stop, in
\* the order of InstanceSlice.
Stoppers == Having(TypesOf(app.Context.InstanceSlice), "Stop")

\* C18: App.Stop invokes Stop on no instance twice and on nothing but the
\* Stoppers of the context, and when it returns it has invoked Stop on every
\* one of them, whatever the earlier Stop calls returned and whether or not
\* the deadline had passed.
C18_StopsEveryStopper ==
    /\ \A i \in DOMAIN gs, j \in DOMAIN gs :
          (gs[i].op = "Stop" /\ gs[j].op = "Stop" /\ i # j) => gs[i].svc # gs[j].svc
    /\ \A i \in DOMAIN gs : gs[i].op = "Stop" => gs[i].svc \in Range(Stoppers)
    /\ app.pc = "stopDone" => Range(TypesOf(Launched("Stop"))) = Range(Stoppers)

\* C18's case: Stop has returned after the Stop of the first of three Stoppers
\* returned an error and the deadline passed before the last one was invoked.
C18_Witness ==
    /\ app.pc = "stopDone"
    /\ Len(Launched("Stop")) = 3
    /\ Launched("Stop")[1].res = ServiceErr("Stop", Launched("Stop")[1].svc)
    /\ app.err = ServiceErr("Stop", Launched("Stop")[1].svc)
    /\ Launched("Stop")[3].st = "running"

\* C19: when App.Stop returns, it returns the first error withTimeout returned
\* for a Stop call, the deadline's error where the call had not completed in
\* time, and it returns nil only if every Stop call has returned nil.
C19_StopReturnsFirstError ==
    app.pc = "stopDone" =>
        /\ app.stopRet = app.err
        /\ app.stopRet = NoErr =>
              \A i \in DOMAIN gs :
                  gs[i].op = "Stop" => gs[i].st = "sent" /\ gs[i].res = NoErr

-----------------------------------------------------------------------------
(* Properties of Module.Import.                                             *)

\* No value occurs twice in the sequence s.
NoRepeat(s) == \A i \in DOMAIN s, j \in DOMAIN s : s[i] = s[j] => i = j

\* C21: a module function that imports a module it has already imported does
\* not end NewContext with the panic of a duplicate import, and the import
\* list of no module holds a module twice.
C21_RepeatImportIdempotent ==
    /\ result.kind = "panic" => result.err.kind # "duplicate import"
    /\ \A n \in DOMAIN result.built.Modules : NoRepeat(result.built.Modules[n].Imports)

-----------------------------------------------------------------------------
(* Properties of the lazily constructing Context (unnamed/part_001).        *)
(* result.built is the context NewContext made.                             *)

\* C22: when Fill(&s, modules...) returns a nil error, every exported field
\* of s whose type has a provider in the modules holds an instance of that
\* type, and every field whose type has none holds what it held before.
C22_FillPopulatesProvided ==
    (user.op = "Fill" /\ user.ret = NoErr /\ user.panic = "") =>
        \A i \in DOMAIN user.old :
            IF user.old[i].typ \in DOMAIN result.built.Providers
            THEN user.old[i].exported =>
                    /\ user.dst[i].val # Zero(user.old[i].typ)
                    /\ user.dst[i].val.typ = user.old[i].typ
            ELSE user.dst[i] = user.old[i]

\* C28: every read and every write of ctx.Instances that GetByType (for Get)
\* or Fill has made was made by a goroutine that held ctx.mu, so that no
\* read of the map was made while another goroutine was writing it.
C28_InstancesGuardedByMu ==
    \A a \in lazy.log : a.held /\ ~a.racing

-----------------------------------------------------------------------------
(* Properties of the cyclic-import error of initModule.                     *)

\* C23: the path of a cyclic-import error starts and ends with the module
\* that was entered again, holds no other module twice, holds only modules
\* that lie on an import cycle, and lists them in import order: each module
\* of the path but the last is followed by a module it imports.
C23_CyclePathInImportOrder ==
    (result.kind = "error" /\ result.err.kind = "cyclic import") =>
        LET path == result.err.path IN
        /\ Len(path) >= 2
        /\ path[1] = path[Len(path)]
        /\ NoRepeat(Tail(path))
        /\ \A i \in DOMAIN path : path[i] \in Reach(importsOf(path[i]))
        /\ \A i \in 1..(Len(path) - 1) : path[i + 1] \in importsOf(path[i])

-----------------------------------------------------------------------------
(* Properties of App.Start and of withTimeout.                              *)

C25_StartAndStopReturn ==
    /\ (app.pc \in {"startLoop", "startSelect"}) ~> (app.pc \notin {"startLoop", "startSelect"})
    /\ (app.pc \in {"stopLoop", "stopSelect"}) ~> (app.pc = "stopDone")

\* C25's case: Run has returned though a Start and a Stop it invoked have
\* not returned.
C25_Witness ==
    /\ app.pc = "stopDone"
    /\ \E g \in DOMAIN gs : gs[g].op = "Start" /\ gs[g].st = "running"
    /\ \E g \in DOMAIN gs : gs[g].op = "Stop" /\ gs[g].st = "running"

-----------------------------------------------------------------------------
(* Properties of initInstances.                                             *)

\* C26: the sequence of the types of ctx.InstanceSlice of the context
\* NewContext returns is the one initInstances makes in every order in which
\* Go can range over ctx.Providers.
C26_InstanceSliceOrderStable ==
    result.kind = "ok" =>
        \A provOrder \in Orders(DOMAIN result.built.Providers) :
            TypesOf(NewContextInstances(result, provOrder, {}).built.InstanceSlice)
                = TypesOf(result.built.InstanceSlice)

-----------------------------------------------------------------------------
(* Properties of the context after NewContext. result.ctx is the context as *)
(* NewContext returned it, app.Context the context the App and the program  *)
(* use.                                                                     *)

\* C27: the context of an App has the Modules, Providers, Instances and
\* InstanceSlice NewContext returned, whatever calls of Get, MustGet, Inject,
\* App.Start and App.Stop have been made on it.
C27_ContextImmutable ==
    app.pc \notin {"new", "failed"} =>
        /\ app.Context.Modules = result.ctx.Modules
        /\ app.Context.Providers = result.ctx.Providers
        /\ app.Context.Instances = result.ctx.Instances
        /\ app.Context.InstanceSlice = result.ctx.InstanceSlice

\* C27's case: Run has invoked the Start and the Stop of a service and has
\* returned, and Inject has set a field of a struct.
C27_Witness ==
    /\ app.pc = "stopDone"
    /\ \E g \in DOMAIN gs : gs[g].op = "Start"
    /\ \E g \in DOMAIN gs : gs[g].op = "Stop"
    /\ user.op = "Inject"
    /\ user.dst # user.old

-----------------------------------------------------------------------------
(* Termination of NewContext, and the values passed to it.                  *)

\* C29: NewContext never ends in initInstance calling itself without end:
\* whatever the dependencies of the providers, it returns.
C29_NewContextTerminates ==
    result.kind # "overflow"

\* C30: when NewContext succeeds, every plain value that was passed to it is
\* the instance of its type in ctx.Instances.
C30_ValuesRegistered ==
    result.kind = "ok" =>
        \A i \in DOMAIN roots :
            roots[i].kind = "val" =>
                /\ roots[i].arg \in DOMAIN result.ctx.Instances
                /\ result.ctx.Instances[roots[i].arg] = Value(roots[i].arg)

-----------------------------------------------------------------------------
(* Properties of the goroutines of withTimeout and of the instance store.   *)

\* The goroutines whose method has not returned.
Running == {g \in DOMAIN gs : gs[g].st = "running"}

\* C31: during App.Run at most one Start or Stop of a service is running at
\* any moment.
C31_OneLifecycleCallAtATime ==
    app.entry = "Run" => Cardinality(Running) <= 1

\* C32: when NewContext succeeds, ctx.Instances has the keys of ctx.Providers
\* and no others, and ctx.InstanceSlice holds one element for each provider:
\* the instances of ctx.Instances, each once.
C32_OneInstancePerProvider ==
    result.kind = "ok" =>
        LET ctx == result.ctx IN
        /\ DOMAIN ctx.Instances = DOMAIN ctx.Providers
        /\ Len(ctx.InstanceSlice) = Cardinality(DOMAIN ctx.Providers)
        /\ \A t \in DOMAIN ctx.Providers :
              \E i \in DOMAIN ctx.InstanceSlice :
                  ctx.InstanceSlice[i] = ctx.Instances[t] /\ ctx.Instances[t].typ = t

\* C32's case: three providers, X being a dependency of the two others.
C32_Witness ==
    /\ result.kind = "ok"
    /\ DOMAIN result.ctx.Providers = Types
    /\ \E i \in DOMAIN result.calls : Len(result.calls[i].args) = 2
    /\ Len(result.ctx.InstanceSlice) = 3

-----------------------------------------------------------------------------
(* Properties of the channel of withTimeout.                                *)

\* The goroutines a call of Run, Start or Stop can launch.
GoIds == 1..(2 * Cardinality(Types))

\* C33: a goroutine of withTimeout whose method has returned completes its
\* send and ends, whether or not withTimeout has returned before.
C33_SendNeverBlocks ==
    \A g \in GoIds :
        (g \in DOMAIN gs /\ gs[g].st = "returned")
            ~> (g \in DOMAIN gs /\ gs[g].st = "ended")

\* C33's case: withTimeout has returned the deadline error for a goroutine
\* whose method returned later; its result lies in the channel and the
\* goroutine has ended.
C33_Witness ==
    \E g \in DOMAIN gs :
        /\ gs[g].st = "ended"
        /\ gs[g].ch = <<gs[g].res>>
        /\ app.pc = "stopDone"
        /\ app.err = ErrDeadline

====
